---- MODULE Spec2Model ----
(***************************************************************************)
(* Model of the winget_updater update engine (src/update_checker.py): the  *)
(* check run of WingetUpdateChecker, its structured (JSON) and free-text   *)
(* parsers, the pin registry, the cache accessors and the threads that     *)
(* call them (src/service_component.py, src/system_tray.py).               *)
(*                                                                         *)
(* Python strings are modelled as sequences of one-character strings, so   *)
(* that the string operations of the source (lower, strip, substring test, *)
(* regular-expression search and split) are computed and not assumed.      *)
(***************************************************************************)
EXTENDS Integers, Sequences, FiniteSets, TLC

\* ------------------------------------------------------------------------
\* Strings
\* ------------------------------------------------------------------------

UPPER ==
    <<"A", "B", "C", "D", "E", "F", "G", "H", "I", "J", "K", "L", "M", "N", "O", "P", "Q", "R", "S", "T", "U", "V", "W", "X", "Y", "Z">>

LOWER ==
    <<"a", "b", "c", "d", "e", "f", "g", "h", "i", "j", "k", "l", "m", "n", "o", "p", "q", "r", "s", "t", "u", "v", "w", "x", "y", "z">>

DIGITS ==
    {"0", "1", "2", "3", "4", "5", "6", "7", "8", "9"}

\* str.isdigit / the regular expression class \d, on one character
IsDigit(c) ==
    c \in DIGITS

\* the regular expression class \s (and what str.strip removes), on one character
IsSpace(c) ==
    c \in {" ", "\t", "\n", "\r"}

\* str.lower, on one character
LowerChar(c) ==
    IF \E i \in 1..Len(UPPER) : UPPER[i] = c
    THEN LOWER[CHOOSE i \in 1..Len(UPPER) : UPPER[i] = c]
    ELSE c

\* str.lower
Lower(s) ==
    [i \in 1..Len(s) |-> LowerChar(s[i])]

\* s[i:] of Python with a 1-based index
From(s, i) ==
    SubSeq(s, i, Len(s))

\* str.startswith
StartsWith(s, p) ==
    /\ Len(p) <= Len(s)
    /\ SubSeq(s, 1, Len(p)) = p

\* the operator "sub in s" on strings
Contains(s, sub) ==
    \E i \in 1..(Len(s) - Len(sub) + 1) : SubSeq(s, i, i + Len(sub) - 1) = sub

\* any(char.isdigit() for char in s)
HasDigit(s) ==
    \E i \in 1..Len(s) : IsDigit(s[i])

\* str.strip
Strip(s) ==
    IF \A i \in 1..Len(s) : IsSpace(s[i])
    THEN << >>
    ELSE LET a == CHOOSE i \in 1..Len(s) :
                      /\ ~IsSpace(s[i])
                      /\ \A j \in 1..(i - 1) : IsSpace(s[j])
             b == CHOOSE i \in 1..Len(s) :
                      /\ ~IsSpace(s[i])
                      /\ \A j \in (i + 1)..Len(s) : IsSpace(s[j])
         IN  SubSeq(s, a, b)

\* whether character c is in a class of characters: "digit" (\d), "space" (\s),
\* or "line" (any character but the newline)
InClass(c, cls) ==
    CASE cls = "digit" -> IsDigit(c)
      [] cls = "space" -> IsSpace(c)
      [] cls = "line" -> c # "\n"

\* the end of the run of characters of class cls that starts at i:
\* the index of the first character at or after i that is not in the class
RunEnd(s, i, cls) ==
    IF \E j \in i..Len(s) : ~InClass(s[j], cls)
    THEN CHOOSE j \in i..Len(s) :
             ~InClass(s[j], cls) /\ \A k \in i..(j - 1) : InClass(s[k], cls)
    ELSE Len(s) + 1

\* the end (exclusive) of the longest match of (\.\d+)* that starts at i
RECURSIVE DottedTailEnd(_, _)
DottedTailEnd(s, i) ==
    IF i + 1 <= Len(s) /\ s[i] = "." /\ IsDigit(s[i + 1])
    THEN DottedTailEnd(s, RunEnd(s, i + 1, "digit"))
    ELSE i

\* whether \d+(\.\d+)+ matches at i, and where the match ends (exclusive; 0: no match)
DottedMatchEnd(s, i) ==
    IF i <= Len(s) /\ IsDigit(s[i])
    THEN LET e == RunEnd(s, i, "digit")
             f == DottedTailEnd(s, e)
         IN  IF f > e THEN f ELSE 0
    ELSE 0

\* re.search(r'\d+(\.\d+)+', s): the leftmost match, << >> when there is none
SearchDotted(s) ==
    IF \E i \in 1..Len(s) : DottedMatchEnd(s, i) > 0
    THEN LET i == CHOOSE k \in 1..Len(s) :
                      /\ DottedMatchEnd(s, k) > 0
                      /\ \A j \in 1..(k - 1) : DottedMatchEnd(s, j) = 0
         IN  SubSeq(s, i, DottedMatchEnd(s, i) - 1)
    ELSE << >>

\* re.findall(r'\d+', s) is not empty
HasNumericPart(s) ==
    \E i \in 1..Len(s) : IsDigit(s[i])

\* re.split(r'\s{2,}', s), from index i on: the leftmost match starts at the first
\* blank that is followed by a blank, and takes the whole run of blanks
RECURSIVE SplitColumns(_, _)
SplitColumns(s, i) ==
    IF \E j \in i..(Len(s) - 1) : IsSpace(s[j]) /\ IsSpace(s[j + 1])
    THEN LET j == CHOOSE k \in i..(Len(s) - 1) :
                      /\ IsSpace(s[k]) /\ IsSpace(s[k + 1])
                      /\ \A m \in i..(k - 1) : ~(IsSpace(s[m]) /\ IsSpace(s[m + 1]))
         IN  << SubSeq(s, i, j - 1) >> \o SplitColumns(s, RunEnd(s, j, "space"))
    ELSE << From(s, i) >>

\* [p.strip() for p in re.split(r'\s{2,}', line.strip())]
Columns(line) ==
    LET raw == SplitColumns(Strip(line), 1)
    IN  [k \in 1..Len(raw) |-> Strip(raw[k])]

\* whether \s*\([^)]*\) matches at i
ParenMatchAt(s, i) ==
    LET j == RunEnd(s, i, "space")
    IN  /\ j <= Len(s)
        /\ s[j] = "("
        /\ \E k \in (j + 1)..Len(s) : s[k] = ")"

\* re.sub(r'\s*\([^)]*\)', '', s), from index i on: drop every parenthetical group
\* and the blanks before it
RECURSIVE RemoveParens(_, _)
RemoveParens(s, i) ==
    IF \E a \in i..Len(s) : ParenMatchAt(s, a)
    THEN LET a == CHOOSE k \in i..Len(s) :
                      ParenMatchAt(s, k) /\ \A m \in i..(k - 1) : ~ParenMatchAt(s, m)
             j == RunEnd(s, a, "space")
             e == CHOOSE k \in (j + 1)..Len(s) :
                      s[k] = ")" /\ \A m \in (j + 1)..(k - 1) : s[m] # ")"
         IN  SubSeq(s, i, a - 1) \o RemoveParens(s, e + 1)
    ELSE From(s, i)

\* whether the whole of s matches \s+\d+(\.\d+)+
IsBlankThenDotted(s) ==
    /\ Len(s) > 0
    /\ IsSpace(s[1])
    /\ LET j == RunEnd(s, 1, "space")
       IN  DottedMatchEnd(s, j) = Len(s) + 1

\* re.sub(r'\s+\d+(\.\d+)+$', '', s): drop a trailing version number
RemoveTrailingVersion(s) ==
    IF \E i \in 1..Len(s) : IsBlankThenDotted(From(s, i))
    THEN LET i == CHOOSE k \in 1..Len(s) :
                      /\ IsBlankThenDotted(From(s, k))
                      /\ \A j \in 1..(k - 1) : ~IsBlankThenDotted(From(s, j))
         IN  SubSeq(s, 1, i - 1)
    ELSE s

\* ------------------------------------------------------------------------
\* String constants of the source
\* ------------------------------------------------------------------------

UNKNOWN_LOWER ==
    <<"u", "n", "k", "n", "o", "w", "n">>

UNKNOWN_JSON ==
    <<"U", "n", "k", "n", "o", "w", "n">>

NO_UPDATES_FOUND ==
    <<"N", "o", " ", "u", "p", "d", "a", "t", "e", "s", " ", "f", "o", "u", "n", "d", ".">>

NO_AVAILABLE_UPGRADES ==
    <<"N", "o", " ", "a", "v", "a", "i", "l", "a", "b", "l", "e", " ", "u", "p", "g", "r", "a", "d", "e", "s", ".">>

MARKER_EXPLICIT ==
    <<"T", "h", "e", " ", "f", "o", "l", "l", "o", "w", "i", "n", "g", " ", "p", "a", "c", "k", "a", "g", "e", "s", " ", "h", "a", "v", "e", " ", "a", "n", " ", "u", "p", "g", "r", "a", "d", "e", " ", "a", "v", "a", "i", "l", "a", "b", "l", "e", ",", " ", "b", "u", "t", " ", "r", "e", "q", "u", "i", "r", "e", " ", "e", "x", "p", "l", "i", "c", "i", "t", " ", "t", "a", "r", "g", "e", "t", "i", "n", "g", " ", "f", "o", "r", " ", "u", "p", "g", "r", "a", "d", "e", ":">>

MARKER_UNDETERMINED ==
    <<"h", "a", "v", "e", " ", "v", "e", "r", "s", "i", "o", "n", " ", "n", "u", "m", "b", "e", "r", "s", " ", "t", "h", "a", "t", " ", "c", "a", "n", "n", "o", "t", " ", "b", "e", " ", "d", "e", "t", "e", "r", "m", "i", "n", "e", "d">>

MARKER_PINS ==
    <<"h", "a", "v", "e", " ", "p", "i", "n", "s", " ", "t", "h", "a", "t", " ", "p", "r", "e", "v", "e", "n", "t", " ", "u", "p", "g", "r", "a", "d", "e">>

HEADER_WIDE ==
    <<"N", "a", "m", "e", " ", " ", " ", " ", " ", " ", " ", " ", " ", " ", " ", " ", " ", " ", " ", " ", " ", " ", " ", "I", "d", " ", " ", " ", " ", " ", " ", " ", " ", " ", " ", " ", " ", " ", " ", " ", " ", " ", " ", " ", " ", "V", "e", "r", "s", "i", "o", "n", " ", " ", " ", " ", " ", "A", "v", "a", "i", "l", "a", "b", "l", "e", " ", " ", " ", "S", "o", "u", "r", "c", "e">>

HEADER_NARROW ==
    <<"N", "a", "m", "e", " ", " ", "I", "d", " ", " ", " ", " ", " ", " ", " ", " ", " ", " ", "V", "e", "r", "s", "i", "o", "n", " ", " ", "A", "v", "a", "i", "l", "a", "b", "l", "e", " ", "S", "o", "u", "r", "c", "e">>

HEADER_RULE ==
    <<"-", "-", "-", "-", "-", "-", "-", "-", "-", "-", "-", "-", "-", "-", "-", "-", "-", "-", "-", "-", "-", "-", "-", "-", "-", "-", "-", "-", "-", "-", "-", "-", "-", "-", "-", "-", "-", "-", "-", "-", "-", "-", "-", "-", "-", "-", "-", "-", "-", "-", "-", "-", "-", "-", "-", "-", "-", "-", "-", "-", "-", "-", "-", "-", "-", "-", "-", "-", "-", "-", "-">>

KW_NAME ==
    <<"N", "a", "m", "e">>

KW_PACKAGE ==
    <<"P", "a", "c", "k", "a", "g", "e">>

KW_ID ==
    <<" ", "I", "d", " ">>

KW_ID_UPPER ==
    <<" ", "I", "D", " ">>

KW_VERSION ==
    <<" ", "V", "e", "r", "s", "i", "o", "n", " ">>

KW_AVAILABLE ==
    <<" ", "A", "v", "a", "i", "l", "a", "b", "l", "e", " ">>

SKIP_UPGRADES_AVAILABLE ==
    <<"u", "p", "g", "r", "a", "d", "e", "s", " ", "a", "v", "a", "i", "l", "a", "b", "l", "e">>

SKIP_UPGRADE_AVAILABLE ==
    <<"u", "p", "g", "r", "a", "d", "e", " ", "a", "v", "a", "i", "l", "a", "b", "l", "e">>

SKIP_NO_UPDATES_FOUND ==
    <<"n", "o", " ", "u", "p", "d", "a", "t", "e", "s", " ", "f", "o", "u", "n", "d">>

SKIP_PACKAGES_HAVE ==
    <<"p", "a", "c", "k", "a", "g", "e", "(", "s", ")", " ", "h", "a", "v", "e">>

SKIP_PREVENT_UPGRADE ==
    <<"p", "r", "e", "v", "e", "n", "t", " ", "u", "p", "g", "r", "a", "d", "e">>

SKIP_EXPLICIT_TARGETING ==
    <<"e", "x", "p", "l", "i", "c", "i", "t", " ", "t", "a", "r", "g", "e", "t", "i", "n", "g">>

PIN_RULE ==
    <<"-", "-", "-">>

PIN_ID ==
    <<"I", "d">>

SOURCE_WINGET ==
    <<"w", "i", "n", "g", "e", "t">>

\* ------------------------------------------------------------------------
\* Values
\* ------------------------------------------------------------------------

\* a JSON string value, as json.loads returns it
JStr(s) ==
    [t |-> "str", s |-> s, n |-> 0]

\* a JSON number value, as json.loads returns it
JNum(n) ==
    [t |-> "num", s |-> << >>, n |-> n]

\* bool(v) of Python: "not v" is its negation
Truthy(v) ==
    IF v.t = "str" THEN v.s # << >> ELSE v.n # 0

\* v == "<literal>" of Python for a string literal
EqLiteral(v, lit) ==
    v.t = "str" /\ v.s = lit

\* one entry of available_updates built by the structured parser: no 'source' key
JsonPackageInfo(name, id, current_version, available_version) ==
    [name |-> name, id |-> id, current_version |-> current_version,
     available_version |-> available_version, has_source |-> FALSE, source |-> << >>]

\* one entry of available_updates built by the free-text parser
TextPackageInfo(name, id, version, available) ==
    [name |-> name, id |-> id, current_version |-> version,
     available_version |-> available, has_source |-> TRUE, source |-> SOURCE_WINGET]

\* ------------------------------------------------------------------------
\* WingetUpdateChecker._is_valid_version_comparison
\* ------------------------------------------------------------------------

\* the result of the check on two values: "true", "false", or "raise" when
\* .lower() is called on a value that is not a string (AttributeError)
IsValidVersionComparisonMissingAvailable(current_version, available_version) ==
    IF ~Truthy(current_version) THEN "false"
    ELSE IF current_version.t # "str" THEN "raise"
    ELSE IF Lower(current_version.s) = UNKNOWN_LOWER THEN "false"
    ELSE IF ~HasDigit(current_version.s) THEN "false"
    ELSE IF HasNumericPart(current_version.s) THEN "true"
    ELSE "false"

IsValidVersionComparisonMissingCurrent(current_version, available_version) ==
    IF ~Truthy(available_version) THEN "false"
    ELSE IF available_version.t # "str" THEN "raise"
    ELSE IF Lower(available_version.s) = UNKNOWN_LOWER THEN "false"
    ELSE IF ~HasDigit(available_version.s) THEN "false"
    ELSE IF HasNumericPart(available_version.s) THEN "true"
    ELSE "false"

IsValidVersionComparison(current_version, available_version) ==
    IF ~Truthy(current_version) \/ ~Truthy(available_version) THEN "false"
    ELSE IF current_version.t # "str" THEN "raise"
    ELSE IF Lower(current_version.s) = UNKNOWN_LOWER THEN "false"
    ELSE IF available_version.t # "str" THEN "raise"
    ELSE IF Lower(available_version.s) = UNKNOWN_LOWER THEN "false"
    ELSE IF ~HasDigit(current_version.s) \/ ~HasDigit(available_version.s) THEN "false"
    ELSE IF HasNumericPart(current_version.s) /\ HasNumericPart(available_version.s)
         THEN "true"
    ELSE "false"

\* WingetUpdateChecker._is_package_pinned
IsPackagePinnedNever(package_id, pinned) ==
    FALSE

IsPackagePinned(package_id, pinned) ==
    package_id \in pinned

\* ------------------------------------------------------------------------
\* WingetUpdateChecker._parse_winget_json
\* ------------------------------------------------------------------------

\* what json.loads and the shape test do with a document:
\*   "decode_error"  json.loads raises JSONDecodeError
\*   "raise"         the shape test or the Sources branch raises
\*   "data"          the Data branch is taken
\*   "none"          neither branch is taken
JsonShape(doc) ==
    IF doc.kind = "invalid" THEN "decode_error"
    ELSE IF doc.kind = "scalar" THEN "raise"         \* "Sources" in None: TypeError
    ELSE IF doc.kind = "array" THEN "none"           \* "Sources" in []: False
    ELSE IF "Sources" \in doc.keys THEN "raise"      \* packages is a list: packages.items() raises
    ELSE IF "Data" \in doc.keys THEN "data"
    ELSE "none"

DATA_KEYS ==
    {"Name", "Id", "Version", "AvailableVersion"}

\* one iteration of the loop over data["Data"]:
\* [kind |-> "append", info |-> ...], [kind |-> "skip"] or [kind |-> "raise"]
JsonDataItem(item, include_pinned, include_unknown, pinned) ==
    LET current_version == item.Version
        available_version == item.AvailableVersion
        unknown == EqLiteral(current_version, UNKNOWN_JSON) \/ ~Truthy(current_version)
        valid == IsValidVersionComparison(current_version, available_version)
        skip == [kind |-> "skip", info |-> << >>]
    IN  IF ~(DATA_KEYS \subseteq item.keys) THEN skip
        ELSE IF unknown /\ ~include_unknown THEN skip
        ELSE IF valid = "raise" THEN [kind |-> "raise", info |-> << >>]
        ELSE IF valid = "false" THEN skip
        ELSE IF ~include_pinned /\ IsPackagePinned(item.Id.s, pinned) THEN skip
        ELSE IF current_version # available_version
             THEN [kind |-> "append",
                   info |-> JsonPackageInfo(item.Name.s, item.Id.s,
                                            current_version.s, available_version.s)]
        ELSE skip

\* ------------------------------------------------------------------------
\* WingetUpdateChecker._parse_winget_output and its helpers
\* ------------------------------------------------------------------------

\* str.split('\n'), from index i on
RECURSIVE SplitLines(_, _)
SplitLines(s, i) ==
    LET e == RunEnd(s, i, "line")
    IN  IF e > Len(s) THEN << From(s, i) >>
        ELSE << SubSeq(s, i, e - 1) >> \o SplitLines(s, e + 1)

\* output.strip().split('\n')
OutputLines(output) ==
    SplitLines(Strip(output), 1)

\* the scan for the two "no updates" messages
SaysNoUpdates(lines) ==
    \E k \in 1..Len(lines) :
        Contains(lines[k], NO_UPDATES_FOUND) \/ Contains(lines[k], NO_AVAILABLE_UPGRADES)

SECTION_MARKERS ==
    << MARKER_EXPLICIT, MARKER_UNDETERMINED, MARKER_PINS >>

STANDARD_HEADERS ==
    { HEADER_WIDE, HEADER_NARROW, HEADER_RULE }

\* WingetUpdateChecker._is_header_line
IsHeaderLine(line) ==
    \/ Strip(line) \in STANDARD_HEADERS
    \/ /\ StartsWith(Strip(line), KW_NAME)
       /\ Contains(line, KW_ID)
       /\ Contains(line, KW_VERSION)
       /\ Contains(line, KW_AVAILABLE)
    \/ /\ StartsWith(Strip(line), KW_PACKAGE)
       /\ Contains(line, KW_ID_UPPER)
       /\ Contains(line, KW_VERSION)
       /\ Contains(line, KW_AVAILABLE)

SKIP_PHRASES ==
    { SKIP_UPGRADES_AVAILABLE, SKIP_UPGRADE_AVAILABLE, SKIP_NO_UPDATES_FOUND,
      SKIP_PACKAGES_HAVE, SKIP_PREVENT_UPGRADE, SKIP_EXPLICIT_TARGETING }

\* WingetUpdateChecker._should_skip_line
ShouldSkipLine(line) ==
    \/ Strip(line) = << >>
    \/ \A i \in 1..Len(Strip(line)) : Strip(line)[i] = "-"
    \/ IsHeaderLine(line)
    \/ \E x \in SKIP_PHRASES : Contains(Lower(line), x)

\* WingetUpdateChecker._split_output_into_sections, from line k on
RECURSIVE SplitSections(_, _, _, _, _)
SplitSections(lines, k, sections, current_section, in_first_section) ==
    IF k > Len(lines)
    THEN IF current_section # << >> THEN Append(sections, current_section) ELSE sections
    ELSE LET line == lines[k]
             is_marker == \E m \in 1..Len(SECTION_MARKERS) : Contains(line, SECTION_MARKERS[m])
             closed == IF current_section # << >>
                       THEN Append(sections, current_section) ELSE sections
         IN  IF is_marker
             THEN SplitSections(lines, k + 1, closed, << line >>, FALSE)
             ELSE IF in_first_section /\ IsHeaderLine(line)
             THEN SplitSections(lines, k + 1, closed, << line >>, in_first_section)
             ELSE SplitSections(lines, k + 1, sections, Append(current_section, line),
                                in_first_section)

\* the lines in the order in which the loop over the sections processes them
RECURSIVE Flatten(_)
Flatten(sections) ==
    IF sections = << >> THEN << >> ELSE Head(sections) \o Flatten(Tail(sections))

SectionLines(output) ==
    Flatten(SplitSections(OutputLines(output), 1, << >>, << >>, TRUE))

\* the version clean-up: the first dotted number of the column if it has one
CleanVersion(column) ==
    IF SearchDotted(column) # << >> THEN SearchDotted(column) ELSE column

\* the name clean-up
CleanName(column) ==
    Strip(RemoveTrailingVersion(RemoveParens(column, 1)))

\* _process_output_section, lines 457-483: what the loop extracts from a line
\* before it filters: whether the line is left out (skipped, or fewer than four
\* columns), and the cleaned columns
LineFields(line) ==
    LET parts == Columns(line)
    IN  IF ShouldSkipLine(line) \/ Len(parts) < 4
        THEN [skipped |-> TRUE, name |-> << >>, id_str |-> << >>,
              version |-> << >>, available |-> << >>]
        ELSE [skipped |-> FALSE, name |-> CleanName(parts[1]), id_str |-> parts[2],
              version |-> CleanVersion(parts[3]), available |-> CleanVersion(parts[4])]

\* _process_output_section, lines 485-511: the filters on the extracted fields;
\* [kind |-> "append", info |-> ...] or [kind |-> "skip"]
ProcessFields(fields, include_pinned, include_unknown, pinned) ==
    LET name == fields.name
        id_str == fields.id_str
        version == fields.version
        available == fields.available
        unknown == Lower(version) = UNKNOWN_LOWER \/ version = << >>
        skip == [kind |-> "skip", info |-> << >>]
    IN  IF fields.skipped THEN skip
        ELSE IF unknown /\ ~include_unknown THEN skip
        ELSE IF IsValidVersionComparison(JStr(version), JStr(available)) # "true" THEN skip
        ELSE IF ~include_pinned /\ IsPackagePinned(id_str, pinned) THEN skip
        ELSE IF /\ name # << >> /\ id_str # << >>
                /\ version # << >> /\ available # << >>
                /\ version # available
             THEN [kind |-> "append",
                   info |-> TextPackageInfo(name, id_str, version, available)]
        ELSE skip

\* one iteration of the loop of _process_output_section
ProcessLine(line, include_pinned, include_unknown, pinned) ==
    ProcessFields(LineFields(line), include_pinned, include_unknown, pinned)

\* ------------------------------------------------------------------------
\* WingetUpdateChecker._refresh_pinned_packages: the ids its loop adds
\* ------------------------------------------------------------------------

PinLineSkipped(line) ==
    \/ Strip(line) = << >>
    \/ Contains(line, PIN_RULE)
    \/ Contains(line, KW_NAME) /\ Contains(line, PIN_ID)

PinnedIds(output) ==
    LET lines == OutputLines(output)
    IN  { Columns(lines[k])[2] : k \in { j \in 1..Len(lines) :
                                           /\ ~PinLineSkipped(lines[j])
                                           /\ Len(Columns(lines[j])) >= 2 } }

\* ------------------------------------------------------------------------
\* The package manager: the outputs its commands may produce
\* ------------------------------------------------------------------------

NAME_FOO ==
    <<"F", "o", "o", " ", "B", "a", "r">>

NAME_GIT ==
    <<"G", "i", "t">>

NAME_VIM ==
    <<"V", "i", "m">>

ID_FOO ==
    <<"F", "o", "o", ".", "B", "a", "r">>

ID_GIT ==
    <<"G", "i", "t", ".", "G", "i", "t">>

ID_VIM ==
    <<"V", "i", "m", ".", "V", "i", "m">>

V_1_2_3 ==
    <<"1", ".", "2", ".", "3">>

V_1_2_4 ==
    <<"1", ".", "2", ".", "4">>

V_2_0 ==
    <<"2", ".", "0">>

V_2_1 ==
    <<"2", ".", "1">>

V_9_1 ==
    <<"9", ".", "1">>

V_LATEST ==
    <<"l", "a", "t", "e", "s", "t">>

V_UNKNOWN_UPPER ==
    <<"U", "N", "K", "N", "O", "W", "N">>

TEXT_NO_UPDATES ==
    <<"N", "o", " ", "u", "p", "d", "a", "t", "e", "s", " ", "f", "o", "u", "n", "d", ".">>

TEXT_TABLE ==
    <<"N", "a", "m", "e", " ", " ", " ", " ", " ", " ", " ", " ", " ", " ", " ", "I", "d", " ", " ", " ", " ", " ", " ", " ", "V", "e", "r", "s", "i", "o", "n", " ", " ", "A", "v", "a", "i", "l", "a", "b", "l", "e", " ", " ", "S", "o", "u", "r", "c", "e", "\n", "-", "-", "-", "-", "-", "-", "-", "-", "-", "-", "-", "-", "-", "-", "-", "-", "-", "-", "-", "-", "-", "-", "-", "-", "-", "-", "-", "-", "-", "-", "-", "-", "-", "-", "-", "-", "-", "-", "-", "-", "-", "-", "-", "-", "-", "-", "-", "-", "-", "-", "-", "\n", "F", "o", "o", " ", "B", "a", "r", " ", "(", "x", "6", "4", ")", " ", " ", "F", "o", "o", ".", "B", "a", "r", " ", " ", "1", ".", "2", ".", "3", " ", " ", " ", " ", "1", ".", "2", ".", "4", " ", " ", " ", " ", " ", " ", "w", "i", "n", "g", "e", "t", "\n", "G", "i", "t", " ", " ", " ", " ", " ", " ", " ", " ", " ", " ", " ", " ", "G", "i", "t", ".", "G", "i", "t", " ", " ", "2", ".", "0", " ", " ", " ", " ", " ", " ", "2", ".", "0", " ", " ", " ", " ", " ", " ", " ", " ", "w", "i", "n", "g", "e", "t", "\n", "2", " ", "u", "p", "g", "r", "a", "d", "e", "s", " ", "a", "v", "a", "i", "l", "a", "b", "l", "e", ".">>

TEXT_SECTIONS ==
    <<"N", "a", "m", "e", " ", " ", "I", "d", " ", " ", " ", " ", " ", " ", " ", "V", "e", "r", "s", "i", "o", "n", " ", " ", "A", "v", "a", "i", "l", "a", "b", "l", "e", " ", " ", "S", "o", "u", "r", "c", "e", "\n", "G", "i", "t", " ", " ", " ", "G", "i", "t", ".", "G", "i", "t", " ", " ", "<", " ", "2", ".", "0", " ", " ", " ", " ", "2", ".", "1", " ", " ", " ", " ", " ", " ", " ", " ", "w", "i", "n", "g", "e", "t", "\n", "1", " ", "p", "a", "c", "k", "a", "g", "e", "(", "s", ")", " ", "h", "a", "v", "e", " ", "v", "e", "r", "s", "i", "o", "n", " ", "n", "u", "m", "b", "e", "r", "s", " ", "t", "h", "a", "t", " ", "c", "a", "n", "n", "o", "t", " ", "b", "e", " ", "d", "e", "t", "e", "r", "m", "i", "n", "e", "d", ".", "\n", "N", "a", "m", "e", " ", " ", "I", "d", " ", " ", " ", " ", " ", " ", " ", "V", "e", "r", "s", "i", "o", "n", " ", " ", "A", "v", "a", "i", "l", "a", "b", "l", "e", " ", " ", "S", "o", "u", "r", "c", "e", "\n", "V", "i", "m", " ", " ", " ", "V", "i", "m", ".", "V", "i", "m", " ", " ", "U", "n", "k", "n", "o", "w", "n", " ", " ", "9", ".", "1", " ", " ", " ", " ", " ", " ", " ", " ", "w", "i", "n", "g", "e", "t">>

TEXT_ODD ==
    <<"N", "a", "m", "e", " ", " ", "I", "d", " ", " ", " ", " ", " ", " ", " ", "V", "e", "r", "s", "i", "o", "n", " ", " ", "A", "v", "a", "i", "l", "a", "b", "l", "e", " ", " ", "S", "o", "u", "r", "c", "e", "\n", "V", "i", "m", " ", " ", " ", "V", "i", "m", ".", "V", "i", "m", " ", " ", "9", ".", "1", " ", " ", " ", " ", " ", " ", "l", "a", "t", "e", "s", "t", " ", " ", " ", " ", " ", "w", "i", "n", "g", "e", "t", "\n", "F", "o", "o", " ", "B", "a", "r", " ", "1", ".", "2", ".", "3", " ", " ", "F", "o", "o", ".", "B", "a", "r", " ", " ", "v", "1", ".", "2", ".", "3", "-", "r", "c", " ", " ", "1", ".", "2", ".", "3", " ", " ", "w", "i", "n", "g", "e", "t", "\n", "G", "i", "t", " ", " ", " ", "G", "i", "t", ".", "G", "i", "t", " ", " ", "2", ".", "0">>

PINS_NONE ==
    <<"T", "h", "e", "r", "e", " ", "a", "r", "e", " ", "n", "o", " ", "p", "i", "n", "s", " ", "c", "o", "n", "f", "i", "g", "u", "r", "e", "d", ".">>

PINS_GIT ==
    <<"N", "a", "m", "e", " ", " ", "I", "d", " ", " ", " ", " ", " ", " ", " ", "V", "e", "r", "s", "i", "o", "n", " ", " ", "S", "o", "u", "r", "c", "e", " ", " ", "P", "i", "n", " ", "t", "y", "p", "e", "\n", "-", "-", "-", "-", "-", "-", "-", "-", "-", "-", "-", "-", "-", "-", "-", "-", "-", "-", "-", "-", "-", "-", "-", "-", "-", "-", "-", "-", "-", "-", "-", "-", "-", "-", "-", "-", "-", "-", "-", "-", "-", "-", "\n", "G", "i", "t", " ", " ", " ", "G", "i", "t", ".", "G", "i", "t", " ", " ", "2", ".", "0", " ", " ", " ", " ", " ", " ", "w", "i", "n", "g", "e", "t", " ", " ", "P", "i", "n", "n", "i", "n", "g">>

TEXT_SHORT ==
    <<"N", "a", "m", "e", " ", " ", "I", "d", " ", " ", " ", " ", " ", " ", " ", "V", "e", "r", "s", "i", "o", "n", " ", " ", "A", "v", "a", "i", "l", "a", "b", "l", "e", " ", " ", "S", "o", "u", "r", "c", "e", "\n", "V", "i", "m", " ", " ", " ", "V", "i", "m", ".", "V", "i", "m", " ", " ", "9", ".", "0", " ", " ", " ", " ", " ", " ", "9", ".", "1", " ", " ", " ", " ", " ", " ", " ", " ", "w", "i", "n", "g", "e", "t">>

\* the same package in the main table and in a later section
TEXT_REPEAT ==
    <<"N", "a", "m", "e", " ", " ", "I", "d", " ", " ", " ", " ", " ", " ", " ", "V", "e", "r", "s", "i", "o", "n", " ", " ", "A", "v", "a", "i", "l", "a", "b", "l", "e", " ", " ", "S", "o", "u", "r", "c", "e", "\n", "V", "i", "m", " ", " ", " ", "V", "i", "m", ".", "V", "i", "m", " ", " ", "9", ".", "0", " ", " ", " ", " ", " ", " ", "9", ".", "1", " ", " ", " ", " ", " ", " ", " ", " ", "w", "i", "n", "g", "e", "t", "\n", "T", "h", "e", " ", "f", "o", "l", "l", "o", "w", "i", "n", "g", " ", "p", "a", "c", "k", "a", "g", "e", "s", " ", "h", "a", "v", "e", " ", "a", "n", " ", "u", "p", "g", "r", "a", "d", "e", " ", "a", "v", "a", "i", "l", "a", "b", "l", "e", ",", " ", "b", "u", "t", " ", "r", "e", "q", "u", "i", "r", "e", " ", "e", "x", "p", "l", "i", "c", "i", "t", " ", "t", "a", "r", "g", "e", "t", "i", "n", "g", " ", "f", "o", "r", " ", "u", "p", "g", "r", "a", "d", "e", ":", "\n", "N", "a", "m", "e", " ", " ", "I", "d", " ", " ", " ", " ", " ", " ", " ", "V", "e", "r", "s", "i", "o", "n", " ", " ", "A", "v", "a", "i", "l", "a", "b", "l", "e", " ", " ", "S", "o", "u", "r", "c", "e", "\n", "V", "i", "m", " ", " ", " ", "V", "i", "m", ".", "V", "i", "m", " ", " ", "9", ".", "0", " ", " ", " ", " ", " ", " ", "9", ".", "1", " ", " ", " ", " ", " ", " ", " ", " ", "w", "i", "n", "g", "e", "t">>

\* a decoded JSON document; kind "invalid" stands for text that json.loads rejects
Doc(kind, keys, sources, data) ==
    [kind |-> kind, keys |-> keys, Sources |-> sources, Data |-> data]

\* one element of data["Data"]
Item(keys, name, id, version, available) ==
    [keys |-> keys, Name |-> JStr(name), Id |-> JStr(id),
     Version |-> version, AvailableVersion |-> available]

\* one element of data["Sources"]: its Packages mapping, as (id, info) pairs in order
Source(packages) ==
    [keys |-> {"Packages"}, Packages |-> packages]

Package(id, name, version, available) ==
    [id |-> id,
     info |-> [keys |-> {"Name", "Version", "AvailableVersion"}, Name |-> JStr(name),
               Version |-> JStr(version), AvailableVersion |-> JStr(available)]]

JSON_DOCS ==
    [ invalid |-> Doc("invalid", {}, << >>, << >>),
      null    |-> Doc("scalar", {}, << >>, << >>),
      empty   |-> Doc("object", {}, << >>, << >>),
      sources |-> Doc("object", {"Sources"},
                      << Source(<< Package(ID_FOO, NAME_FOO, V_1_2_3, V_1_2_4),
                                   Package(ID_GIT, NAME_GIT, V_2_0, V_2_1) >>) >>, << >>),
      data    |-> Doc("object", {"Data"}, << >>,
                      << Item(DATA_KEYS, NAME_FOO, ID_FOO, JStr(V_1_2_3), JStr(V_1_2_4)),
                         Item(DATA_KEYS, NAME_GIT, ID_GIT, JStr(V_2_0), JStr(V_2_1)) >>),
      mixed   |-> Doc("object", {"Data"}, << >>,
                      << Item(DATA_KEYS, NAME_VIM, ID_VIM, JStr(UNKNOWN_JSON), JStr(V_9_1)),
                         Item(DATA_KEYS, NAME_GIT, ID_GIT, JStr(V_2_0), JStr(V_2_0)),
                         Item(DATA_KEYS, NAME_FOO, ID_FOO, JStr(V_1_2_3), JStr(V_LATEST)) >>),
      partial |-> Doc("object", {"Data"}, << >>,
                      << Item(DATA_KEYS, NAME_FOO, ID_FOO, JStr(V_1_2_3), JStr(V_1_2_4)),
                         Item(DATA_KEYS, NAME_GIT, ID_GIT, JNum(2), JStr(V_2_1)) >>),
      sparse  |-> Doc("object", {"Data"}, << >>,
                      << Item({"Name", "Id", "Version"}, NAME_FOO, ID_FOO,
                              JStr(V_1_2_3), JStr(V_1_2_4)),
                         Item(DATA_KEYS, NAME_VIM, ID_VIM, JStr(V_UNKNOWN_UPPER), JStr(V_9_1)),
                         Item(DATA_KEYS, NAME_GIT, ID_GIT, JStr(V_2_0), JStr(<< >>)) >>) ]

TEXT_OUTPUTS ==
    [ none     |-> TEXT_NO_UPDATES,
      short    |-> TEXT_SHORT,
      table    |-> TEXT_TABLE,
      sections |-> TEXT_SECTIONS,
      odd      |-> TEXT_ODD,
      repeat   |-> TEXT_REPEAT ]

PIN_OUTPUTS ==
    [ none |-> PINS_NONE,
      git  |-> PINS_GIT ]

\* the lines of each text output in processing order, and whether it says "no updates"
TEXT_LINES ==
    [k \in DOMAIN TEXT_OUTPUTS |-> SectionLines(TEXT_OUTPUTS[k])]

\* what the loop extracts from each of these lines
TEXT_FIELDS ==
    [k \in DOMAIN TEXT_OUTPUTS |->
        [i \in 1..Len(TEXT_LINES[k]) |-> LineFields(TEXT_LINES[k][i])]]

TEXT_SAYS_NO_UPDATES ==
    [k \in DOMAIN TEXT_OUTPUTS |-> SaysNoUpdates(OutputLines(TEXT_OUTPUTS[k]))]

PIN_IDS ==
    [k \in DOMAIN PIN_OUTPUTS |-> PinnedIds(PIN_OUTPUTS[k])]

\* ------------------------------------------------------------------------
\* State
\* ------------------------------------------------------------------------

VARIABLES
    available_updates,   \* WingetUpdateChecker.available_updates
    update_count,        \* WingetUpdateChecker.update_count
    last_check_time,     \* WingetUpdateChecker.last_check_time (NONE_TIME: None)
    is_checking,         \* WingetUpdateChecker.is_checking
    pinned_packages,     \* WingetUpdateChecker.pinned_packages
    config,              \* the settings of the ConfigManager that the engine reads and writes
    frame,               \* per thread: where it is in the operation it runs, and its locals
    now,                 \* the clock that datetime.now() reads
    calls,               \* the number of operations started so far
    completed,           \* history: the result (list, count) of the last check that completed
    env,                 \* the deployment: its threads and what the package manager may print
    sched,               \* the scheduler loop: its position, the wall clock and its settings
    ipc,                 \* the named pipe: IPCServer, IPCClient and the messages between them
    codec,               \* an IPCMessage, its JSON text and the message read back from it
    service              \* WingetUpdaterService: the settings of its ConfigManager and its last responses

vars ==
    << available_updates, update_count, last_check_time, is_checking, pinned_packages,
       config, frame, now, calls, completed, env, sched, ipc, codec, service >>

engine ==
    << available_updates, update_count, last_check_time, is_checking, pinned_packages >>

\* the number of operations (CheckUpdates, GetUpdatesList, ...) that the threads
\* start in a behaviour of Spec and of SeqSpec
MaxCalls ==
    3

MaxSeqCalls ==
    2

\* the number of command variants _check_updates_json tries
NumJsonCommands ==
    4

NONE_TIME ==
    0

\* the scheduler thread and a thread that serves requests (the IPC server thread of
\* the service, or a worker thread of the tray application)
THREADS ==
    {"scheduler", "handler"}

\* time.sleep(30) of the scheduler loop, time.sleep(60) of its except clause, and
\* the seconds of the minute that "%H:%M" names
SLEEP_SECONDS ==
    30

ERROR_SLEEP_SECONDS ==
    60

MINUTE_SECONDS ==
    60

\* the wall clock counts ticks of half a polling interval, so that a check can take
\* less time than the loop sleeps
TICK_SECONDS ==
    SLEEP_SECONDS \div 2

SLEEP_TICKS ==
    SLEEP_SECONDS \div TICK_SECONDS

ERROR_SLEEP_TICKS ==
    ERROR_SLEEP_SECONDS \div TICK_SECONDS

MINUTE_TICKS ==
    MINUTE_SECONDS \div TICK_SECONDS

\* the ticks of a behaviour of SchedSpec, and the requests its handler thread serves
MaxClock ==
    3

MaxSchedCalls ==
    1

\* the ticks of a behaviour of LoopSpec
MaxLoopClock ==
    8

\* the operations a behaviour of InstallSpec starts
MaxInstallCalls ==
    1

\* now.strftime("%H:%M"): the minute the clock is in
CurrentTime(clock) ==
    clock \div MINUTE_TICKS

\* BUFFER_SIZE of ipc_handler.py, in bytes
BUFFER_SIZE ==
    4096

\* the operations the threads of the front-end start in a behaviour of IpcSpec, the
\* pipe instances its server creates, the times CreateNamedPipe fails, and the
\* attempts that fit into the timeout of connect (one every 0.5 seconds)
MaxRequests ==
    2

MaxConns ==
    2

MaxFailures ==
    1

TimeoutAttempts ==
    2

\* the threads of the front-end that use its one IPCClient: the status updater and
\* a worker that a menu entry starts (ui_component.py, lines 546-551 and 1531)
CLIENT_THREADS ==
    {"status", "worker"}

\* no message
NO_MESSAGE ==
    [kind |-> "none", command |-> "none", req |-> 0, bytes |-> 0, message |-> "none"]

\* a thread of the front-end that is not in a call of the IPCClient
IDLE_CALL ==
    [pc |-> "idle", op |-> "none", kind |-> "none", command |-> "none", req |-> 0,
     attempts |-> 0, ret |-> "none", resp |-> NO_MESSAGE]

\* IPCServer.__init__ and IPCClient.__init__: no thread, no pipe; conn numbers the
\* pipe instances, link is the state of the current one, client_pipe the instance
\* whose handle the client holds (0: None), c2s and s2c the messages written and
\* not yet read; requests, failures and stops count what has happened
IPC_OFF ==
    [running |-> FALSE, server |-> "off", conn |-> 0, link |-> "none",
     client_pipe |-> 0, c2s |-> << >>, s2c |-> << >>,
     threads |-> [t \in CLIENT_THREADS |-> IDLE_CALL],
     requests |-> 0, failures |-> 0]

\* no message is being converted
CODEC_OFF ==
    [pc |-> "off"]

\* the service is not part of the deployment
SERVICE_OFF ==
    [pc |-> "off"]

\* the scheduler loop where its thread has not been started; fired: the minutes in
\* which a call of the loop has started a run, missed: the call of the loop found
\* is_checking set, polls and errors: the iterations the loop has started and those
\* that have ended in its except clause (counted where the deployment keeps history)
SCHED_OFF ==
    [pc |-> "off", clock |-> 0, wake |-> 0, auto_check |-> TRUE,
     morning_check |-> 0, afternoon_check |-> 0, fired |-> {}, missed |-> FALSE,
     polls |-> 0, errors |-> 0]

EMPTY_RESULT ==
    [updates |-> << >>, count |-> 0]

IDLE_FRAME ==
    [pc |-> "idle", op |-> "none", 
     include_pinned |-> FALSE, include_unknown |-> FALSE,
     variant |-> 0, out |-> "none", json_doc |-> "none", idx |-> 0,
     ret |-> 0, exit |-> "none", raised |-> FALSE, spawned |-> FALSE,
     pin_failed |-> FALSE,
     updates_to_install |-> << >>, upgrade |-> "none", result |-> "none",
     before |-> EMPTY_RESULT, returned |-> << >>]

\* WingetUpdateChecker.__init__, with the settings ConfigManager.__init__ loaded
EngineInit ==
    /\ available_updates = << >>
    /\ update_count = 0
    /\ last_check_time = NONE_TIME
    /\ is_checking = FALSE
    /\ pinned_packages = {}
    /\ config \in [include_pinned_updates : env.settings,
                   include_unknown_versions : env.settings,
                   last_check : {NONE_TIME}]
    /\ frame = [t \in THREADS |-> IDLE_FRAME]
    /\ now = 0
    /\ calls = 0
    /\ completed = EMPTY_RESULT

\* the service with its two threads, the default settings, and a package manager
\* of a few outputs
Init ==
    /\ env = [threads |-> THREADS, max_calls |-> MaxCalls, snapshots |-> FALSE,
              max_clock |-> 0,
              settings |-> {FALSE},
              json |-> {"invalid", "data"}, text |-> {"short"}, pins |-> {"git"}]
    /\ sched = SCHED_OFF
    /\ ipc = IPC_OFF
    /\ codec = CODEC_OFF
    /\ service = SERVICE_OFF
    /\ EngineInit

\* one thread, any settings, and every output of the package manager; each call
\* keeps a snapshot of the result it found and of whether its pin list command failed
SeqInit ==
    /\ env = [threads |-> {"handler"}, max_calls |-> MaxSeqCalls, snapshots |-> TRUE,
              max_clock |-> 0,
              settings |-> BOOLEAN,
              json |-> DOMAIN JSON_DOCS, text |-> DOMAIN TEXT_OUTPUTS,
              pins |-> DOMAIN PIN_OUTPUTS]
    /\ sched = SCHED_OFF
    /\ ipc = IPC_OFF
    /\ codec = CODEC_OFF
    /\ service = SERVICE_OFF
    /\ EngineInit

\* one thread that may also install, and a package manager of a few outputs
InstallInit ==
    /\ env = [threads |-> {"handler"}, max_calls |-> MaxInstallCalls, snapshots |-> FALSE,
              max_clock |-> 0,
              settings |-> BOOLEAN,
              json |-> {"invalid", "data"}, text |-> {"none", "short", "table"},
              pins |-> {"none", "git"}]
    /\ sched = SCHED_OFF
    /\ ipc = IPC_OFF
    /\ codec = CODEC_OFF
    /\ service = SERVICE_OFF
    /\ EngineInit

\* the service with its scheduler loop started (service_component.py, lines 113-116)
\* and its handler thread: the scheduler thread calls check_updates from its loop
\* only, at the times of the settings
SchedInit ==
    /\ env = [threads |-> {"handler"}, max_calls |-> MaxSchedCalls, snapshots |-> FALSE,
              max_clock |-> MaxClock,
              settings |-> {FALSE},
              json |-> {"data"}, text |-> {"short"}, pins |-> {"git"}]
    /\ \E a \in BOOLEAN, m \in {0, 1} :
          sched = [SCHED_OFF EXCEPT !.pc = "sleep", !.auto_check = a,
                                    !.morning_check = m, !.afternoon_check = 1]
    /\ ipc = IPC_OFF
    /\ codec = CODEC_OFF
    /\ service = SERVICE_OFF
    /\ EngineInit

\* the tray application with its scheduler thread started (system_tray.py) and no
\* other caller; the history of the loop is kept
LoopInit ==
    /\ env = [threads |-> {}, max_calls |-> 0, snapshots |-> TRUE,
              max_clock |-> MaxLoopClock,
              settings |-> {FALSE},
              json |-> {"data"}, text |-> {"short"}, pins |-> {"git"}]
    /\ \E a \in BOOLEAN, m \in {0, 1} :
          sched = [SCHED_OFF EXCEPT !.pc = "sleep", !.auto_check = a,
                                    !.morning_check = m, !.afternoon_check = 1]
    /\ ipc = IPC_OFF
    /\ codec = CODEC_OFF
    /\ service = SERVICE_OFF
    /\ EngineInit

\* ------------------------------------------------------------------------
\* WingetUpdateChecker.check_updates
\* ------------------------------------------------------------------------

\* datetime.now() when the clock shows the given time: a later time than that of
\* any call before (config_manager.py, line 93; update_checker.py, lines 315 and 154)
DatetimeStale(clock) ==
    clock

DatetimeNow(clock) ==
    clock + 1

\* where a thread goes on when check_updates returns to the operation that called it
AfterCheck(f) ==
    CASE f.op = "check_updates" -> "done"
      [] f.op = "get_update_count" -> "count_return"
      [] f.op = "get_updates_list" -> "list_return"
      [] f.op = "install_all_updates" ->
             IF f.upgrade = "none" THEN "install_start" ELSE "install_verify"

\* the resolution of an argument that is None, True or False against the settings
Resolve(arg, setting) ==
    IF arg = "None" THEN setting ELSE arg = "True"

\* the except clauses of the engine: whether an exception raised at a site ("pin":
\* the pin list command, "json_command": a structured command, "json_parse": the
\* structured parser, "text": the text command) is caught before it leaves
\* check_updates (lines 544, 209, 319-324 and 159)
CatchesInHelpersOnly(site) ==
    site # "text"

CatchesAllButPinList(site) ==
    site # "pin"

Catches(site) ==
    TRUE

\* whether the guard is cleared when the run leaves by this exit
\* ("json_ok", "text_ok", "nonzero", "exception"): line 144 and the finally clause
ClearsGuardOnlyOnReturn(exit) ==
    exit # "exception"

ClearsGuard(exit) ==
    TRUE

\* the entry of check_updates(force, include_pinned, include_unknown) from frame f:
\* the guard of line 92 and the resolution of the filter flags
EnterCheck(f, force, include_pinned, include_unknown) ==
    LET g == [f EXCEPT !.before = IF env.snapshots
                                 THEN [updates |-> available_updates, count |-> update_count]
                                 ELSE EMPTY_RESULT,
                       !.exit = "none", !.ret = 0, !.spawned = FALSE,
                       !.pin_failed = FALSE,
                       !.json_doc = "none", !.out = "none", !.variant = 0,
                       !.idx = 0]
    IN  IF is_checking /\ ~force
        THEN [g EXCEPT !.ret = update_count, !.exit = "skipped", !.pc = AfterCheck(g)]
        ELSE [g EXCEPT !.pc = "set_guard",
                       !.include_pinned =
                           Resolve(include_pinned, config.include_pinned_updates),
                       !.include_unknown =
                           Resolve(include_unknown, config.include_unknown_versions)]

\* an exception that no except clause of the engine catches leaves check_updates
\* through its finally clause
Propagate(f) ==
    [f EXCEPT !.raised = TRUE, !.exit = "exception", !.ret = 0, !.pc = "finally"]

\* the structured path returned None: line 131, on to the text command
ToTextPath(f) ==
    [f EXCEPT !.pc = "text_run", !.out = "none", !.idx = 0]

\* a scheduler tick, a check_updates request, a menu click: check_updates()
CallCheckUpdates(t) ==
    /\ frame[t].pc = "idle"
    /\ t \in env.threads
    /\ calls < env.max_calls
    /\ calls' = calls + 1
    /\ frame' = [frame EXCEPT ![t] =
                    EnterCheck([frame[t] EXCEPT !.op = "check_updates"],
                               FALSE, "None", "None")]
    /\ UNCHANGED << engine, config, now, completed, env, sched, ipc, codec, service >>

\* line 106
SetGuard(t) ==
    /\ frame[t].pc = "set_guard"
    /\ is_checking' = TRUE
    /\ frame' = [frame EXCEPT ![t].pc = "clear"]
    /\ UNCHANGED << available_updates, update_count, last_check_time, pinned_packages,
                    config, now, calls, completed, env, sched, ipc, codec, service >>

\* lines 110-111
ClearCache(t) ==
    /\ frame[t].pc = "clear"
    /\ available_updates' = << >>
    /\ update_count' = 0
    /\ frame' = [frame EXCEPT ![t].pc = "pin_reset"]
    /\ UNCHANGED << last_check_time, is_checking, pinned_packages,
                    config, now, calls, completed, env, sched, ipc, codec, service >>

\* _refresh_pinned_packages, line 520
PinReset(t) ==
    /\ frame[t].pc = "pin_reset"
    /\ pinned_packages' = {}
    /\ frame' = [frame EXCEPT ![t].pc = "pin_run"]
    /\ UNCHANGED << available_updates, update_count, last_check_time, is_checking,
                    config, now, calls, completed, env, sched, ipc, codec, service >>

\* _refresh_pinned_packages, lines 521-545: the pin list command cannot be spawned
\* or exits non-zero
PinFail(t) ==
    /\ frame[t].pc = "pin_run"
    /\ \E outcome \in {"raise", "nonzero"} :
          frame' = [frame EXCEPT ![t] =
                       IF outcome = "raise" /\ ~Catches("pin")
                       THEN [Propagate(@) EXCEPT !.pc = "done", !.pin_failed = env.snapshots]
                       ELSE [@ EXCEPT !.pc = "json_run", !.spawned = TRUE,
                                      !.pin_failed = env.snapshots]]
    /\ UNCHANGED << engine, config, now, calls, completed, env, sched, ipc, codec, service >>

\* _refresh_pinned_packages, lines 521-545: the pin list command prints a table
PinList(t) ==
    /\ frame[t].pc = "pin_run"
    /\ \E k \in env.pins :
          pinned_packages' = pinned_packages \cup PIN_IDS[k]
    /\ frame' = [frame EXCEPT ![t].pc = "json_run", ![t].spawned = TRUE]
    /\ UNCHANGED << available_updates, update_count, last_check_time, is_checking,
                    config, now, calls, completed, env, sched, ipc, codec, service >>

\* _check_updates_json, lines 188-211: every command variant cannot be spawned or
\* exits non-zero, and the function returns None
JsonCommandsFail(t) ==
    /\ frame[t].pc = "json_run"
    /\ \E outcome \in {"raise", "nonzero"} :
          frame' = [frame EXCEPT ![t] =
                       IF outcome = "raise" /\ ~Catches("json_command")
                       THEN Propagate(@)
                       ELSE [ToTextPath(@) EXCEPT !.variant = NumJsonCommands]]
    /\ UNCHANGED << engine, config, now, calls, completed, env, sched, ipc, codec, service >>

\* what _parse_winget_json does with document d before its loop (lines 226-243 and
\* 276: json.loads and the choice of the branch), as the frame that follows f
JsonParse(f, d) ==
    LET doc == JSON_DOCS[d]
        shape == JsonShape(doc)
        g == [f EXCEPT !.out = d, !.json_doc = d]
    IN  CASE shape = "decode_error" ->
                 IF Catches("json_parse") THEN ToTextPath(g) ELSE Propagate(g)
          [] shape = "raise" ->
                 IF Catches("json_parse") THEN ToTextPath(g) ELSE Propagate(g)
          [] shape = "data" /\ Len(doc.Data) > 0 ->
                 [g EXCEPT !.pc = "json_item", !.idx = 1]
          [] OTHER -> [g EXCEPT !.pc = "json_count"]

\* _check_updates_json, lines 188-200: the variants before v fail, the command of
\* variant v exits with status zero; its output goes to _parse_winget_json (which
\* resets the list, line 228) and the loop is left with what the parser returns
JsonCommandSucceeds(t) ==
    /\ frame[t].pc = "json_run"
    /\ available_updates' = << >>
    /\ \E v \in 1..NumJsonCommands, d \in env.json :
          frame' = [frame EXCEPT ![t] =
                       JsonParse([@ EXCEPT !.variant = v], d)]
    /\ UNCHANGED << update_count, last_check_time, is_checking, pinned_packages,
                    config, now, calls, completed, env, sched, ipc, codec, service >>

\* _parse_winget_json, lines 277-306: one iteration of the loop over data["Data"]
JsonItem(t) ==
    /\ frame[t].pc = "json_item"
    /\ LET doc == JSON_DOCS[frame[t].out]
           step == JsonDataItem(doc.Data[frame[t].idx], frame[t].include_pinned,
                                frame[t].include_unknown, pinned_packages)
           next == IF frame[t].idx < Len(doc.Data)
                   THEN [frame[t] EXCEPT !.idx = @ + 1]
                   ELSE [frame[t] EXCEPT !.pc = "json_count"]
       IN  /\ available_updates' = IF step.kind = "append"
                                   THEN Append(available_updates, step.info)
                                   ELSE available_updates
           /\ frame' = [frame EXCEPT ![t] =
                           IF step.kind = "raise"
                           THEN IF Catches("json_parse") THEN ToTextPath(@) ELSE Propagate(@)
                           ELSE next]
    /\ UNCHANGED << update_count, last_check_time, is_checking, pinned_packages,
                    config, now, calls, completed, env, sched, ipc, codec, service >>

\* _parse_winget_json, line 308
JsonCount(t) ==
    /\ frame[t].pc = "json_count"
    /\ update_count' = Len(available_updates)
    /\ completed' = [updates |-> available_updates, count |-> Len(available_updates)]
    /\ frame' = [frame EXCEPT ![t].pc = "json_done", ![t].variant = 0]
    /\ UNCHANGED << available_updates, last_check_time, is_checking, pinned_packages,
                    config, now, calls, env, sched, ipc, codec, service >>

\* _parse_winget_json, lines 312-317, and lines 127-128 of check_updates
JsonDone(t) ==
    /\ frame[t].pc = "json_done"
    /\ now' = DatetimeNow(now)
    /\ config' = [config EXCEPT !.last_check = DatetimeNow(now)]
    /\ last_check_time' = DatetimeNow(now)
    /\ frame' = [frame EXCEPT ![t].ret = update_count, ![t].exit = "json_ok",
                              ![t].pc = "finally"]
    /\ UNCHANGED << available_updates, update_count, is_checking, pinned_packages,
                    calls, completed, env, sched, ipc, codec, service >>

\* lines 134-139 and 159-161: the text command cannot be spawned
TextCommandRaises(t) ==
    /\ frame[t].pc = "text_run"
    /\ frame' = [frame EXCEPT ![t] =
                    IF Catches("text")
                    THEN [@ EXCEPT !.ret = 0, !.exit = "exception", !.pc = "finally",
                                   !.variant = 0]
                    ELSE Propagate(@)]
    /\ UNCHANGED << engine, config, now, calls, completed, env, sched, ipc, codec, service >>

\* lines 141-145: the text command exits non-zero
TextCommandFails(t) ==
    /\ frame[t].pc = "text_run"
    /\ is_checking' = FALSE
    /\ frame' = [frame EXCEPT ![t].ret = 0, ![t].exit = "nonzero", ![t].pc = "finally",
                              ![t].variant = 0]
    /\ UNCHANGED << available_updates, update_count, last_check_time, pinned_packages,
                    config, now, calls, completed, env, sched, ipc, codec, service >>

\* lines 134-148: the text command exits with status zero, and
\* _parse_winget_output, lines 336-361: the reset of the list, the scan for the
\* "no updates" messages and the split into sections
TextCommandSucceeds(t) ==
    /\ frame[t].pc = "text_run"
    /\ available_updates' = << >>
    /\ \E k \in env.text :
          IF TEXT_SAYS_NO_UPDATES[k]
          THEN /\ update_count' = 0
               /\ completed' = EMPTY_RESULT
               /\ frame' = [frame EXCEPT ![t].pc = "text_done", ![t].out = k,
                                         ![t].variant = 0]
          ELSE /\ UNCHANGED << update_count, completed >>
               /\ frame' = [frame EXCEPT ![t].pc = "text_line", ![t].out = k,
                                         ![t].idx = 1, ![t].variant = 0]
    /\ UNCHANGED << last_check_time, is_checking, pinned_packages, config, now, calls, env, sched, ipc, codec, service >>

\* _process_output_section, lines 455-516: one iteration of the loop over the lines
TextLine(t) ==
    /\ frame[t].pc = "text_line"
    /\ LET lines == TEXT_FIELDS[frame[t].out]
           step == ProcessFields(lines[frame[t].idx], frame[t].include_pinned,
                                 frame[t].include_unknown, pinned_packages)
       IN  /\ available_updates' = IF step.kind = "append"
                                   THEN Append(available_updates, step.info)
                                   ELSE available_updates
           /\ frame' = [frame EXCEPT ![t] =
                           IF @.idx < Len(lines)
                           THEN [@ EXCEPT !.idx = @ + 1]
                           ELSE [@ EXCEPT !.pc = "text_count"]]
    /\ UNCHANGED << update_count, last_check_time, is_checking, pinned_packages,
                    config, now, calls, completed, env, sched, ipc, codec, service >>

\* _parse_winget_output, line 371
TextCount(t) ==
    /\ frame[t].pc = "text_count"
    /\ update_count' = Len(available_updates)
    /\ completed' = [updates |-> available_updates, count |-> Len(available_updates)]
    /\ frame' = [frame EXCEPT ![t].pc = "text_done"]
    /\ UNCHANGED << available_updates, last_check_time, is_checking, pinned_packages,
                    config, now, calls, env, sched, ipc, codec, service >>

\* lines 150-157
TextDone(t) ==
    /\ frame[t].pc = "text_done"
    /\ now' = DatetimeNow(now)
    /\ config' = [config EXCEPT !.last_check = DatetimeNow(now)]
    /\ last_check_time' = DatetimeNow(now)
    /\ frame' = [frame EXCEPT ![t].ret = update_count, ![t].exit = "text_ok",
                              ![t].pc = "finally"]
    /\ UNCHANGED << available_updates, update_count, is_checking, pinned_packages,
                    calls, completed, env, sched, ipc, codec, service >>

\* lines 162-163: the finally clause, and the return to the caller
Finally(t) ==
    /\ frame[t].pc = "finally"
    /\ is_checking' = IF ClearsGuard(frame[t].exit) THEN FALSE ELSE is_checking
    /\ frame' = [frame EXCEPT ![t].pc = IF frame[t].raised THEN "done"
                                        ELSE AfterCheck(frame[t])]
    /\ UNCHANGED << available_updates, update_count, last_check_time, pinned_packages,
                    config, now, calls, completed, env, sched, ipc, codec, service >>

\* ------------------------------------------------------------------------
\* WingetUpdateChecker.get_updates_list and get_update_count
\* ------------------------------------------------------------------------

\* the tests of lines 570 and 593: whether the operation finds its cache empty
\* and forces a check
NeedsCheckAlways(op) ==
    TRUE

NeedsCheck(op) ==
    IF op = "get_updates_list" THEN available_updates = << >> ELSE update_count = 0

\* get_updates_list(), lines 562-571: a forced check when the cached list is empty
CallGetUpdatesList(t) ==
    /\ frame[t].pc = "idle"
    /\ t \in env.threads
    /\ t # "scheduler"
    /\ calls < env.max_calls
    /\ calls' = calls + 1
    /\ frame' = [frame EXCEPT ![t] =
                    LET f == [@ EXCEPT !.op = "get_updates_list"]
                    IN  IF NeedsCheck("get_updates_list")
                        THEN EnterCheck(f, TRUE, "None", "None")
                        ELSE [f EXCEPT !.pc = "list_return"]]
    /\ UNCHANGED << engine, config, now, completed, env, sched, ipc, codec, service >>

\* get_updates_list(), line 572
ListReturn(t) ==
    /\ frame[t].pc = "list_return"
    /\ frame' = [frame EXCEPT ![t].returned = available_updates, ![t].pc = "done"]
    /\ UNCHANGED << engine, config, now, calls, completed, env, sched, ipc, codec, service >>

\* get_update_count(), lines 585-594: a forced check when the cached count is 0
CallGetUpdateCount(t) ==
    /\ frame[t].pc = "idle"
    /\ t \in env.threads
    /\ t # "scheduler"
    /\ calls < env.max_calls
    /\ calls' = calls + 1
    /\ frame' = [frame EXCEPT ![t] =
                    LET f == [@ EXCEPT !.op = "get_update_count"]
                    IN  IF NeedsCheck("get_update_count")
                        THEN EnterCheck(f, TRUE, "None", "None")
                        ELSE [f EXCEPT !.pc = "count_return"]]
    /\ UNCHANGED << engine, config, now, completed, env, sched, ipc, codec, service >>

\* get_update_count(), line 595
CountReturn(t) ==
    /\ frame[t].pc = "count_return"
    /\ frame' = [frame EXCEPT ![t].ret = update_count, ![t].pc = "done"]
    /\ UNCHANGED << engine, config, now, calls, completed, env, sched, ipc, codec, service >>

\* no check_updates response describes the state of the engine
NO_COUNT ==
    0 - 1

\* service_component.py, lines 160-183 and 185-199: the update_count of the response
\* that the service builds from what operation f returned to it; the count of a
\* check_updates response is kept until another operation has run
ResponseCount(f) ==
    IF f.op = "check_updates" THEN f.ret ELSE NO_COUNT

\* the caller has taken the value the operation returned
Return(t) ==
    /\ frame[t].pc = "done"
    /\ frame' = [frame EXCEPT ![t] = IDLE_FRAME]
    /\ service' = IF service.pc = "off" THEN service
                  ELSE [service EXCEPT !.check_count = ResponseCount(frame[t])]
    /\ UNCHANGED << engine, config, now, calls, completed, env, sched, ipc, codec >>

\* ------------------------------------------------------------------------
\* WingetUpdateChecker.install_all_updates
\* ------------------------------------------------------------------------

\* install_all_updates(), line 641: the forced check with both filters off
CallInstallAllUpdates(t) ==
    /\ frame[t].pc = "idle"
    /\ t \in env.threads
    /\ t # "scheduler"
    /\ calls < env.max_calls
    /\ calls' = calls + 1
    /\ frame' = [frame EXCEPT ![t] =
                    EnterCheck([@ EXCEPT !.op = "install_all_updates"],
                               TRUE, "True", "True")]
    /\ UNCHANGED << engine, config, now, completed, env, sched, ipc, codec, service >>

\* lines 643-648: nothing to install, or the copy of the list
InstallStart(t) ==
    /\ frame[t].pc = "install_start"
    /\ frame' = [frame EXCEPT ![t] =
                    IF available_updates = << >>
                    THEN [@ EXCEPT !.result = "true", !.pc = "done"]
                    ELSE [@ EXCEPT !.updates_to_install = available_updates,
                                   !.pc = "upgrade_run"]]
    /\ UNCHANGED << engine, config, now, calls, completed, env, sched, ipc, codec, service >>

\* lines 650-679 and 699-705: 'winget upgrade --all' cannot be spawned, exits
\* non-zero, or exits with zero and the check that verifies is started
UpgradeRun(t) ==
    /\ frame[t].pc = "upgrade_run"
    /\ \E outcome \in {"raise", "nonzero", "zero"} :
          frame' = [frame EXCEPT ![t] =
                       IF outcome = "zero"
                       THEN EnterCheck([@ EXCEPT !.upgrade = outcome], TRUE, "None", "None")
                       ELSE [@ EXCEPT !.upgrade = outcome, !.result = "false",
                                      !.pc = "done"]]
    /\ UNCHANGED << engine, config, now, calls, completed, env, sched, ipc, codec, service >>

\* lines 682-688: whether an update of the copy is in the list again
StillPending(updates_to_install, updates) ==
    \E i \in 1..Len(updates_to_install), j \in 1..Len(updates) :
        updates[j].id = updates_to_install[i].id

\* lines 681-697
InstallVerify(t) ==
    /\ frame[t].pc = "install_verify"
    /\ frame' = [frame EXCEPT ![t].result =
                                  IF StillPending(frame[t].updates_to_install,
                                                  available_updates)
                                  THEN "false" ELSE "true",
                              ![t].pc = "done"]
    /\ UNCHANGED << engine, config, now, calls, completed, env, sched, ipc, codec, service >>

InstallStep(t) ==
    \/ CallInstallAllUpdates(t)
    \/ InstallStart(t)
    \/ UpgradeRun(t)
    \/ InstallVerify(t)

\* ------------------------------------------------------------------------
\* The scheduler loop: WingetUpdaterService._run_scheduler and
\* SystemTrayIcon._run_scheduler
\* ------------------------------------------------------------------------

\* the force argument of the call of the scheduler: check_updates() without
\* arguments (service_component.py, line 166; system_tray.py, line 944)
SchedulerForcesAlways ==
    TRUE

SchedulerForces ==
    FALSE

\* time passes; the loop reads the clock when it wakes up and when it goes to
\* sleep, so the clock is moved while it sleeps, and the time the call of
\* _check_updates took is counted when check_updates has returned
Tick ==
    /\ \/ sched.pc = "sleep" /\ sched.clock < sched.wake
       \/ sched.pc = "check" /\ frame["scheduler"].pc = "done"
    /\ sched.clock < env.max_clock
    /\ sched' = [sched EXCEPT !.clock = @ + 1]
    /\ UNCHANGED << engine, config, frame, now, calls, completed, env, ipc, codec, service >>

\* one iteration of the loop up to the call of _check_updates or to time.sleep(30):
\* the settings are read, and when the minute of the clock is that of one of the
\* two settings check_updates() is called
SchedPoll ==
    /\ sched.pc = "sleep"
    /\ sched.clock >= sched.wake
    /\ frame["scheduler"].pc = "idle"
    /\ IF /\ sched.auto_check
          /\ CurrentTime(sched.clock) \in {sched.morning_check, sched.afternoon_check}
       THEN /\ sched' = [sched EXCEPT !.pc = "check",
                                      !.polls = IF env.snapshots THEN @ + 1 ELSE @,
                                      !.fired = IF is_checking /\ ~SchedulerForces
                                                THEN @
                                                ELSE @ \cup {CurrentTime(sched.clock)},
                                      !.missed = is_checking]
            /\ frame' = [frame EXCEPT !["scheduler"] =
                            EnterCheck([@ EXCEPT !.op = "check_updates"],
                                       SchedulerForces, "None", "None")]
       ELSE /\ sched' = [sched EXCEPT !.wake = sched.clock + SLEEP_TICKS,
                                      !.polls = IF env.snapshots THEN @ + 1 ELSE @]
            /\ UNCHANGED frame
    /\ UNCHANGED << engine, config, now, calls, completed, env, ipc, codec, service >>

\* the except clause of the loop (service_component.py, lines 156-158;
\* system_tray.py, lines 935-937): whether it catches what the try block raises
LoopCatchesNothing ==
    FALSE

LoopCatches ==
    TRUE

\* the loop after an exception of its try block: the except clause and
\* time.sleep(60), or the end of the thread
AfterException(s) ==
    IF LoopCatches
    THEN [s EXCEPT !.pc = "sleep", !.wake = s.clock + ERROR_SLEEP_TICKS,
                   !.missed = FALSE,
                   !.errors = IF env.snapshots THEN @ + 1 ELSE @]
    ELSE [s EXCEPT !.pc = "dead",
                   !.errors = IF env.snapshots THEN @ + 1 ELSE @]

\* the try block raises before the call (a setting that cannot be read)
SchedPollRaises ==
    /\ sched.pc = "sleep"
    /\ sched.clock >= sched.wake
    /\ frame["scheduler"].pc = "idle"
    /\ sched' = AfterException([sched EXCEPT !.polls = IF env.snapshots THEN @ + 1 ELSE @])
    /\ UNCHANGED << engine, config, frame, now, calls, completed, env, ipc, codec, service >>

\* SystemTrayIcon._check_updates raises after check_updates has returned (the icon
\* or the notification, system_tray.py lines 946-956, outside any try of its own)
SchedCheckRaises ==
    /\ sched.pc = "check"
    /\ frame["scheduler"].pc = "idle"
    /\ sched' = AfterException(sched)
    /\ UNCHANGED << engine, config, frame, now, calls, completed, env, ipc, codec, service >>

\* _check_updates has returned: time.sleep(30)
SchedSleep ==
    /\ sched.pc = "check"
    /\ frame["scheduler"].pc = "idle"
    /\ sched' = [sched EXCEPT !.pc = "sleep", !.wake = sched.clock + SLEEP_TICKS,
                              !.missed = FALSE]
    /\ UNCHANGED << engine, config, frame, now, calls, completed, env, ipc, codec, service >>

SchedStep ==
    \/ Tick
    \/ SchedPoll
    \/ SchedPollRaises
    \/ SchedSleep

\* ------------------------------------------------------------------------
\* Specification
\* ------------------------------------------------------------------------

\* the steps of check_updates, and the return to the caller
Run(t) ==
    \/ SetGuard(t)
    \/ ClearCache(t)
    \/ PinReset(t)
    \/ PinFail(t)
    \/ PinList(t)
    \/ JsonCommandsFail(t)
    \/ JsonCommandSucceeds(t)
    \/ JsonItem(t)
    \/ JsonCount(t)
    \/ JsonDone(t)
    \/ TextCommandRaises(t)
    \/ TextCommandFails(t)
    \/ TextCommandSucceeds(t)
    \/ TextLine(t)
    \/ TextCount(t)
    \/ TextDone(t)
    \/ Finally(t)
    \/ Return(t)

Step(t) ==
    \/ CallCheckUpdates(t)
    \/ Run(t)
    \/ CallGetUpdatesList(t)
    \/ ListReturn(t)
    \/ CallGetUpdateCount(t)
    \/ CountReturn(t)

Next ==
    \E t \in THREADS : Step(t)

Spec ==
    Init /\ [][Next]_vars

SeqSpec ==
    SeqInit /\ [][Next]_vars

InstallNext ==
    \E t \in THREADS : Step(t) \/ InstallStep(t)

InstallSpec ==
    InstallInit /\ [][InstallNext]_vars

SchedNext ==
    \/ \E t \in THREADS : CallCheckUpdates(t) \/ Run(t)
    \/ SchedStep

SchedSpec ==
    SchedInit /\ [][SchedNext]_vars

\* the scheduler thread of the tray application on its own
LoopNext ==
    \/ Run("scheduler")
    \/ SchedStep
    \/ SchedCheckRaises

LoopSpec ==
    LoopInit /\ [][LoopNext]_vars

\* the thread of the loop is scheduled and time passes
LoopFairness ==
    /\ WF_vars(Tick)
    /\ WF_vars(SchedPoll \/ SchedPollRaises)
    /\ WF_vars(SchedSleep \/ SchedCheckRaises)
    /\ WF_vars(Run("scheduler"))

FairLoopSpec ==
    LoopSpec /\ LoopFairness

\* ------------------------------------------------------------------------
\* ipc_handler.py: the messages on the pipe
\* ------------------------------------------------------------------------

\* the commands WingetUpdaterService._register_command_handlers registers
COMMAND_HANDLERS ==
    {"check_updates", "get_status", "get_updates", "get_last_check",
     "save_settings", "get_settings"}

\* the commands the front-end sends (ui_component.py, lines 342, 406, 1107, 1164,
\* 1445, 1549 and 1903)
CLIENT_COMMANDS ==
    {"get_settings", "save_settings", "get_status", "check_updates", "get_updates",
     "install_updates"}

\* the commands a thread of the front-end sends: the status updater sends
\* get_status (ui_component.py, line 1107), a worker any of them
CommandsOf(t) ==
    IF t = "status" THEN {"get_status"} ELSE CLIENT_COMMANDS

\* what a process can write on the pipe: the text of IPCMessage.to_json, text that
\* is no JSON, a JSON object without one of the three keys, JSON that is no object
REQUEST_KINDS ==
    {"envelope", "invalid_json", "missing_keys", "not_object"}

\* the length of a message in bytes: most are far below the buffer, a get_updates
\* response that lists many updates is above it
SmallBytes ==
    BUFFER_SIZE \div 16

LargeBytes ==
    BUFFER_SIZE + BUFFER_SIZE \div 2

\* win32file.ReadFile(pipe, BUFFER_SIZE) on a pipe in message mode, from the queue
\* of the messages written: at most BUFFER_SIZE bytes of the first message are
\* returned, and what is left of it stays first in the queue
ReadData(queue) ==
    IF Head(queue).bytes <= BUFFER_SIZE
    THEN Head(queue)
    ELSE [Head(queue) EXCEPT !.kind = "fragment", !.bytes = BUFFER_SIZE]

ReadRest(queue) ==
    IF Head(queue).bytes <= BUFFER_SIZE
    THEN Tail(queue)
    ELSE << [Head(queue) EXCEPT !.kind = "fragment", !.bytes = @ - BUFFER_SIZE] >>
             \o Tail(queue)

\* IPCMessage.from_json: "message" for the text of an envelope, "none" where
\* json.loads or a key lookup fails (the except clause of line 37), "raise" where
\* the JSON value is no object (TypeError, which the clause does not name)
FromJson(data) ==
    CASE data.kind = "envelope" -> "message"
      [] data.kind \in {"invalid_json", "fragment", "missing_keys"} -> "none"
      [] data.kind = "not_object" -> "raise"

\* the try of _handle_command (lines 157-163): whether it catches what a handler
\* raises
HandlerCatchesNothing ==
    FALSE

HandlerCatches ==
    TRUE

\* IPCServer._handle_command for the request m, where the handler, if there is
\* one, returns a result of the given size or raises: the envelope it returns
\* ("raise": the exception leaves _handle_command)
HandleCommand(m, outcome, bytes) ==
    IF m.command \in COMMAND_HANDLERS
    THEN IF outcome = "raise"
         THEN IF HandlerCatches
              THEN [kind |-> "envelope", command |-> "error", req |-> m.req,
                    bytes |-> SmallBytes, message |-> "exception"]
              ELSE [NO_MESSAGE EXCEPT !.kind = "raise"]
         ELSE [kind |-> "envelope", command |-> "response", req |-> m.req,
               bytes |-> bytes, message |-> "none"]
    ELSE [kind |-> "envelope", command |-> "error", req |-> m.req,
          bytes |-> SmallBytes, message |-> "unknown_command"]

\* the error envelope of lines 124-125
ErrorResponse(req) ==
    [kind |-> "envelope", command |-> "error", req |-> req,
     bytes |-> SmallBytes, message |-> "exception"]

\* ------------------------------------------------------------------------
\* IPCServer
\* ------------------------------------------------------------------------

\* IPCServer.start
ServerStart ==
    /\ ipc.server = "off"
    /\ ipc' = [ipc EXCEPT !.running = TRUE, !.server = "create"]
    /\ UNCHANGED << engine, config, frame, now, calls, completed, env, sched, codec, service >>

\* the except clause of the outer loop (lines 147-149): whether it catches
OuterLoopCatchesNothing ==
    FALSE

OuterLoopCatches ==
    TRUE

\* _run_server, lines 74-91: the head of the outer loop, CreateNamedPipe and
\* ConnectNamedPipe; the loop ends when running is false, CreateNamedPipe raises
\* or the server waits for a client
ServerCreate ==
    /\ ipc.server = "create"
    /\ \/ /\ ~ipc.running
          /\ ipc' = [ipc EXCEPT !.server = "stopped"]
       \/ /\ ipc.running
          /\ ipc.conn < MaxConns
          /\ ipc' = [ipc EXCEPT !.server = "accept", !.conn = @ + 1, !.link = "none",
                                !.c2s = << >>, !.s2c = << >>]
       \/ /\ ipc.running
          /\ ipc.failures < MaxFailures
          /\ ipc' = [ipc EXCEPT !.failures = @ + 1,
                                !.server = IF OuterLoopCatches THEN "backoff"
                                           ELSE "stopped"]
    /\ UNCHANGED << engine, config, frame, now, calls, completed, env, sched, codec, service >>

\* line 149: time.sleep(1), and back to the head of the loop
ServerBackoff ==
    /\ ipc.server = "backoff"
    /\ ipc' = [ipc EXCEPT !.server = "create"]
    /\ UNCHANGED << engine, config, frame, now, calls, completed, env, sched, codec, service >>

\* one iteration of the inner loop (lines 94-128) with a request to read: ReadFile,
\* from_json, _handle_command, WriteFile
ServerServe ==
    /\ ipc.server = "read"
    /\ ipc.link = "open"
    /\ ipc.c2s # << >>
    /\ LET data == ReadData(ipc.c2s)
           rest == ReadRest(ipc.c2s)
           parsed == FromJson(data)
       IN  CASE parsed = "none" ->
                    ipc' = [ipc EXCEPT !.c2s = rest]
             [] parsed = "raise" ->
                    ipc' = [ipc EXCEPT !.c2s = rest,
                                       !.s2c = Append(@, ErrorResponse(data.req)),
                                       !.server = "close"]
             [] parsed = "message" ->
                    \E outcome \in {"return", "raise"}, many \in BOOLEAN :
                       LET bytes == IF data.command = "get_updates" /\ many
                                    THEN LargeBytes ELSE SmallBytes
                           response == HandleCommand(data, outcome, bytes)
                       IN  IF response.kind = "raise"
                           THEN ipc' = [ipc EXCEPT !.c2s = rest,
                                           !.s2c = Append(@, ErrorResponse(data.req)),
                                           !.server = "close"]
                           ELSE ipc' = [ipc EXCEPT !.c2s = rest,
                                                   !.s2c = Append(@, response)]
    /\ UNCHANGED << engine, config, frame, now, calls, completed, env, sched, codec, service >>

\* lines 97 and 113-119: the client has closed its handle, ReadFile raises
\* pywintypes.error and the inner loop is left
ServerReadFails ==
    /\ ipc.server = "read"
    /\ ipc.link = "client_closed"
    /\ ipc' = [ipc EXCEPT !.server = "close"]
    /\ UNCHANGED << engine, config, frame, now, calls, completed, env, sched, codec, service >>

\* lines 130-145: DisconnectNamedPipe, CloseHandle, self.pipe = None, and back to
\* the head of the outer loop
ServerClose ==
    /\ ipc.server = "close"
    /\ ipc' = [ipc EXCEPT !.server = "create", !.link = "none",
                          !.c2s = << >>, !.s2c = << >>]
    /\ UNCHANGED << engine, config, frame, now, calls, completed, env, sched, codec, service >>

\* IPCServer.stop: running = False and CloseHandle, which ends the call the server
\* thread is blocked in
ServerStop ==
    /\ ipc.running
    /\ ipc' = [ipc EXCEPT !.running = FALSE,
                          !.server = IF @ \in {"accept", "read"} THEN "close" ELSE @,
                          !.link = IF @ = "open" THEN "server_closed" ELSE @]
    /\ UNCHANGED << engine, config, frame, now, calls, completed, env, sched, codec, service >>

\* ------------------------------------------------------------------------
\* IPCClient
\* ------------------------------------------------------------------------

\* IPCClient.disconnect as the client record that follows c
Disconnected(c) ==
    [c EXCEPT !.client_pipe = 0,
              !.link = IF c.client_pipe = c.conn /\ @ = "open" THEN "client_closed" ELSE @]

\* the handle of the client is that of the instance the server serves
Connected(c) ==
    /\ c.client_pipe # 0
    /\ c.client_pipe = c.conn
    /\ c.link = "open"
    /\ c.server = "read"

\* a thread of the front-end calls send_command (lines 223-227)
CallSendCommand(t) ==
    /\ ipc.threads[t].pc = "idle"
    /\ ipc.requests < MaxRequests
    /\ \E cmd \in CommandsOf(t) :
          ipc' = [ipc EXCEPT !.requests = @ + 1,
                     !.threads[t] = [IDLE_CALL EXCEPT
                         !.op = "send_command", !.kind = "envelope", !.command = cmd,
                         !.req = ipc.requests + 1,
                         !.pc = IF ipc.client_pipe = 0 THEN "connect" ELSE "write"]]
    /\ UNCHANGED << engine, config, frame, now, calls, completed, env, sched, codec, service >>

\* a process that holds a handle of the pipe writes a request that is no envelope
\* and waits for the answer
CallRawRequest(t) ==
    /\ ipc.threads[t].pc = "idle"
    /\ t # "status"
    /\ ipc.requests < MaxRequests
    /\ ipc.client_pipe # 0
    /\ \E k \in REQUEST_KINDS \ {"envelope"} :
          ipc' = [ipc EXCEPT !.requests = @ + 1,
                     !.threads[t] = [IDLE_CALL EXCEPT
                         !.op = "raw_request", !.kind = k, !.req = ipc.requests + 1,
                         !.pc = "write"]]
    /\ UNCHANGED << engine, config, frame, now, calls, completed, env, sched, codec, service >>

\* a thread of the front-end calls connect (ui_component.py, line 1077)
CallConnect(t) ==
    /\ ipc.threads[t].pc = "idle"
    /\ t # "status"
    /\ ipc.requests < MaxRequests
    /\ ipc' = [ipc EXCEPT !.requests = @ + 1,
                  !.threads[t] = [IDLE_CALL EXCEPT !.op = "connect", !.pc = "connect"]]
    /\ UNCHANGED << engine, config, frame, now, calls, completed, env, sched, codec, service >>

\* what connect returns to the operation of the thread
ConnectReturns(call, value) ==
    IF call.op = "send_command"
    THEN IF value THEN [call EXCEPT !.pc = "write"]
                  ELSE [call EXCEPT !.pc = "done", !.ret = "null"]
    ELSE [call EXCEPT !.pc = "done", !.ret = IF value THEN "true" ELSE "false"]

\* IPCClient.connect, one iteration of its loop (lines 178-208): CreateFile opens
\* the instance the server waits on; without an instance it fails with error 2 and
\* the loop sleeps and goes on until the timeout; with an instance that serves a
\* connection it fails with another error (231, all instances busy)
ConnectAttempt(t) ==
    /\ ipc.threads[t].pc = "connect"
    /\ LET call == ipc.threads[t]
       IN  CASE ipc.server = "accept" ->
                    ipc' = [ipc EXCEPT !.client_pipe = ipc.conn, !.link = "open",
                                       !.server = "read",
                                       !.threads[t] = ConnectReturns(call, TRUE)]
             [] ipc.running /\ ipc.server \in {"read", "close"} ->
                    ipc' = [ipc EXCEPT !.threads[t] = ConnectReturns(call, FALSE)]
             [] OTHER ->
                    ipc' = [ipc EXCEPT !.threads[t] =
                               IF call.attempts + 1 >= TimeoutAttempts
                               THEN ConnectReturns([call EXCEPT !.attempts = @ + 1], FALSE)
                               ELSE [call EXCEPT !.attempts = @ + 1]]
    /\ UNCHANGED << engine, config, frame, now, calls, completed, env, sched, codec, service >>

\* send_command, lines 231-233 and 243-249: WriteFile
SendWrite(t) ==
    /\ ipc.threads[t].pc = "write"
    /\ LET call == ipc.threads[t]
           request == [kind |-> call.kind, command |-> call.command, req |-> call.req,
                       bytes |-> SmallBytes, message |-> "none"]
       IN  CASE ipc.client_pipe = 0 ->
                    ipc' = [ipc EXCEPT !.threads[t] =
                                           [call EXCEPT !.pc = "done", !.ret = "null"]]
             [] Connected(ipc) ->
                    ipc' = [ipc EXCEPT !.c2s = Append(@, request),
                                       !.threads[t] = [call EXCEPT !.pc = "read"]]
             [] OTHER ->
                    ipc' = [Disconnected(ipc) EXCEPT !.threads[t] =
                                           [call EXCEPT !.pc = "done", !.ret = "null"]]
    /\ UNCHANGED << engine, config, frame, now, calls, completed, env, sched, codec, service >>

\* send_command, lines 236-249: ReadFile and from_json
SendRead(t) ==
    /\ ipc.threads[t].pc = "read"
    /\ LET call == ipc.threads[t]
       IN  CASE ipc.client_pipe = 0 ->
                    ipc' = [ipc EXCEPT !.threads[t] =
                                           [call EXCEPT !.pc = "done", !.ret = "null"]]
             [] ipc.client_pipe = ipc.conn /\ ipc.s2c # << >> ->
                    LET data == ReadData(ipc.s2c)
                    IN  ipc' = [ipc EXCEPT !.s2c = ReadRest(ipc.s2c),
                                   !.threads[t] =
                                       IF FromJson(data) = "message"
                                       THEN [call EXCEPT !.pc = "done", !.ret = "response",
                                                         !.resp = data]
                                       ELSE [call EXCEPT !.pc = "done", !.ret = "null",
                                                         !.resp = data]]
             [] ~Connected(ipc) ->
                    ipc' = [Disconnected(ipc) EXCEPT !.threads[t] =
                                           [call EXCEPT !.pc = "done", !.ret = "null"]]
             [] OTHER -> FALSE
    /\ UNCHANGED << engine, config, frame, now, calls, completed, env, sched, codec, service >>

\* the caller has taken what send_command or connect returned
CallReturn(t) ==
    /\ ipc.threads[t].pc = "done"
    /\ ipc' = [ipc EXCEPT !.threads[t] = IDLE_CALL]
    /\ UNCHANGED << engine, config, frame, now, calls, completed, env, sched, codec, service >>

\* the front-end quits (ui_component.py, line 1942): IPCClient.disconnect
ClientDisconnect ==
    /\ ipc.client_pipe # 0
    /\ \A t \in CLIENT_THREADS : ipc.threads[t].pc = "idle"
    /\ ipc' = Disconnected(ipc)
    /\ UNCHANGED << engine, config, frame, now, calls, completed, env, sched, codec, service >>

ServerStep ==
    \/ ServerStart
    \/ ServerCreate
    \/ ServerBackoff
    \/ ServerServe
    \/ ServerReadFails
    \/ ServerClose
    \/ ServerStop

ClientStep(t) ==
    \/ CallSendCommand(t)
    \/ CallRawRequest(t)
    \/ CallConnect(t)
    \/ ConnectAttempt(t)
    \/ SendWrite(t)
    \/ SendRead(t)
    \/ CallReturn(t)

IpcNext ==
    \/ ServerStep
    \/ \E t \in CLIENT_THREADS : ClientStep(t)
    \/ ClientDisconnect

\* the service and the front-end before IPCServer.start
IpcInit ==
    /\ env = [threads |-> {}, max_calls |-> 0, snapshots |-> FALSE,
              max_clock |-> 0,
              settings |-> {FALSE},
              json |-> {"data"}, text |-> {"short"}, pins |-> {"git"}]
    /\ sched = SCHED_OFF
    /\ ipc = IPC_OFF
    /\ codec = CODEC_OFF
    /\ service = SERVICE_OFF
    /\ EngineInit

IpcSpec ==
    IpcInit /\ [][IpcNext]_vars

\* the server thread is scheduled: it goes on at the head of its loop, after its
\* sleep and after a session has ended
IpcFairness ==
    /\ WF_vars(ServerCreate)
    /\ WF_vars(ServerBackoff)
    /\ WF_vars(ServerClose)

FairIpcSpec ==
    IpcSpec /\ IpcFairness

\* ------------------------------------------------------------------------
\* IPCMessage: to_json and from_json
\* ------------------------------------------------------------------------

\* a Python value or a JSON value: its type t, the text s of a scalar, the items of
\* a list, tuple or array (the values of a dict or object) and the keys of a dict
\* or object
Value(t, s, items, keys) ==
    [t |-> t, s |-> s, items |-> items, keys |-> keys]

PyNone ==
    Value("none", "", << >>, << >>)

PyBool(s) ==
    Value("bool", s, << >>, << >>)

PyInt(s) ==
    Value("int", s, << >>, << >>)

PyStr(s) ==
    Value("str", s, << >>, << >>)

PyList(items) ==
    Value("list", "", items, << >>)

PyTuple(items) ==
    Value("tuple", "", items, << >>)

PyDict(keys, items) ==
    Value("dict", "", items, keys)

PyDatetime(s) ==
    Value("datetime", s, << >>, << >>)

\* what json.dumps gives that is no JSON text: TypeError
JSON_RAISE ==
    Value("raise", "", << >>, << >>)

\* the items of seq from index i on, each converted by the function of values f
RECURSIVE MapFrom(_, _, _)
MapFrom(seq, i, f) ==
    IF i > Len(seq) THEN << >> ELSE << f[seq[i]] >> \o MapFrom(seq, i + 1, f)

\* json.dumps of a dict key: a str stays, an int, a bool or None becomes its text,
\* any other key is a TypeError
DumpsKey(k) ==
    CASE k.t = "str" -> Value("string", k.s, << >>, << >>)
      [] k.t \in {"int", "bool"} -> Value("string", k.s, << >>, << >>)
      [] k.t = "none" -> Value("string", "null", << >>, << >>)
      [] OTHER -> JSON_RAISE

\* some item of the sequence is the TypeError
AnyRaise(seq) ==
    \E i \in 1..Len(seq) : seq[i].t = "raise"

\* json.dumps: the JSON value of a Python value
RECURSIVE Dumps(_)
Dumps(v) ==
    CASE v.t = "none" -> Value("null", "", << >>, << >>)
      [] v.t = "bool" -> Value("boolean", v.s, << >>, << >>)
      [] v.t = "int" -> Value("number", v.s, << >>, << >>)
      [] v.t = "str" -> Value("string", v.s, << >>, << >>)
      [] v.t \in {"list", "tuple"} ->
             LET items == [i \in 1..Len(v.items) |-> Dumps(v.items[i])]
             IN  IF AnyRaise(items) THEN JSON_RAISE
                 ELSE Value("array", "", items, << >>)
      [] v.t = "dict" ->
             LET items == [i \in 1..Len(v.items) |-> Dumps(v.items[i])]
                 keys == [i \in 1..Len(v.keys) |-> DumpsKey(v.keys[i])]
             IN  IF AnyRaise(items) \/ AnyRaise(keys) THEN JSON_RAISE
                 ELSE Value("object", "", items, keys)
      [] OTHER -> JSON_RAISE

\* the members of a JSON object that a dict keeps: of several members with one
\* key the first gives the place and the last the value
KeptMembers(keys) ==
    {i \in 1..Len(keys) : \A j \in 1..(i - 1) : keys[j] # keys[i]}

LastWith(keys, i) ==
    CHOOSE j \in 1..Len(keys) :
        /\ keys[j] = keys[i]
        /\ \A k \in (j + 1)..Len(keys) : keys[k] # keys[i]

\* the increasing sequence of the numbers of a set
RECURSIVE Sorted(_)
Sorted(set) ==
    IF set = {} THEN << >>
    ELSE LET m == CHOOSE x \in set : \A y \in set : x <= y
         IN  << m >> \o Sorted(set \ {m})

\* json.loads: the Python value of a JSON value
RECURSIVE Loads(_)
Loads(j) ==
    CASE j.t = "null" -> PyNone
      [] j.t = "boolean" -> PyBool(j.s)
      [] j.t = "number" -> PyInt(j.s)
      [] j.t = "string" -> PyStr(j.s)
      [] j.t = "array" -> PyList([i \in 1..Len(j.items) |-> Loads(j.items[i])])
      [] j.t = "object" ->
             LET kept == Sorted(KeptMembers(j.keys))
             IN  PyDict([n \in 1..Len(kept) |-> PyStr(j.keys[kept[n]].s)],
                        [n \in 1..Len(kept) |->
                            Loads(j.items[LastWith(j.keys, kept[n])])])

\* d[key] of a dict d with str keys: the value, or KEY_ERROR
KEY_ERROR ==
    Value("key_error", "", << >>, << >>)

Lookup(d, key) ==
    IF \E i \in 1..Len(d.keys) : d.keys[i] = PyStr(key)
    THEN d.items[CHOOSE i \in 1..Len(d.keys) : d.keys[i] = PyStr(key)]
    ELSE KEY_ERROR

\* IPCMessage.__init__(command, data) at the time now
IPCMessage(command, data, timestamp) ==
    [command |-> command,
     data |-> IF data = PyNone THEN PyDict(<< >>, << >>) ELSE data,
     timestamp |-> timestamp]

\* IPCMessage.to_json: the JSON text of the message, or the TypeError of json.dumps
ToJson(m) ==
    Dumps(PyDict(<< PyStr("command"), PyStr("data"), PyStr("timestamp") >>,
                 << m.command, m.data, m.timestamp >>))

\* line 35: the timestamp of the message that from_json returns
FreshTimestamp(obj, timestamp) ==
    timestamp

ParsedTimestamp(obj, timestamp) ==
    Lookup(obj, "timestamp")

\* no message: what from_json returns from its except clause
NO_IPC_MESSAGE ==
    [command |-> PyNone, data |-> PyNone, timestamp |-> PyNone]

\* IPCMessage.from_json of a JSON text at the time now: the message, NO_IPC_MESSAGE
\* for None
MessageFromJson(text, now_timestamp) ==
    LET obj == Loads(text)
    IN  IF \/ obj.t # "dict"
           \/ Lookup(obj, "command") = KEY_ERROR
           \/ Lookup(obj, "data") = KEY_ERROR
           \/ Lookup(obj, "timestamp") = KEY_ERROR
        THEN NO_IPC_MESSAGE
        ELSE [IPCMessage(Lookup(obj, "command"), Lookup(obj, "data"), now_timestamp)
                 EXCEPT !.timestamp = ParsedTimestamp(obj, now_timestamp)]

\* the commands and the time stamps of the messages that are converted
CODEC_COMMANDS ==
    {PyStr("get_status"), PyStr("install_updates"), PyStr("response"), PyStr("error")}

CODEC_TIMESTAMPS ==
    {PyStr("2024-05-01T08:00:00.000001"), PyStr("2024-05-01T16:00:00")}

CODEC_NOW ==
    PyStr("2024-05-02T08:00:03.250000")

\* an update record as _parse_winget_output builds it
UpdateRecord(name, id) ==
    PyDict(<< PyStr("name"), PyStr("id"), PyStr("current_version"),
              PyStr("available_version"), PyStr("source") >>,
           << PyStr(name), PyStr(id), PyStr("1.2.3"), PyStr("1.2.4"), PyStr("winget") >>)

\* the data of the messages the program sends: None, the argument of the install
\* command, settings, a status, an error and lists of updates
PROGRAM_DATA ==
    { PyNone,
      PyDict(<< >>, << >>),
      PyDict(<< PyStr("all") >>, << PyBool("true") >>),
      PyDict(<< PyStr("morning_check"), PyStr("auto_check") >>,
             << PyStr("08:00"), PyBool("false") >>),
      PyDict(<< PyStr("update_count"), PyStr("last_check") >>,
             << PyInt("2"), PyNone >>),
      PyDict(<< PyStr("message") >>, << PyStr("Unknown command: install_updates") >>),
      PyDict(<< PyStr("updates"), PyStr("count") >>,
             << PyList(<< >>), PyInt("0") >>),
      PyDict(<< PyStr("updates"), PyStr("count") >>,
             << PyList(<< UpdateRecord("Git", "Git.Git"),
                          UpdateRecord("Vim", "Vim.Vim") >>), PyInt("2") >>) }

\* other data a caller can give to IPCMessage: a tuple, a dict with an int key, a
\* dict with the keys 1 and "1", a datetime
OTHER_DATA ==
    { PyDict(<< PyStr("version") >>, << PyTuple(<< PyInt("1"), PyInt("2") >>) >>),
      PyDict(<< PyInt("1") >>, << PyStr("first") >>),
      PyDict(<< PyInt("1"), PyStr("1") >>, << PyStr("first"), PyStr("second") >>),
      PyDict(<< PyStr("last_check") >>, << PyDatetime("2024-05-01 08:00:00") >>) }

\* a message has been built
CodecInit ==
    /\ env = [threads |-> {}, max_calls |-> 0, snapshots |-> FALSE,
              max_clock |-> 0,
              settings |-> {FALSE},
              json |-> {"data"}, text |-> {"short"}, pins |-> {"git"}]
    /\ sched = SCHED_OFF
    /\ ipc = IPC_OFF
    /\ service = SERVICE_OFF
    /\ \E c \in CODEC_COMMANDS, d \in PROGRAM_DATA \cup OTHER_DATA,
          ts \in CODEC_TIMESTAMPS :
          codec = [pc |-> "message", message |-> IPCMessage(c, d, ts),
                   text |-> JSON_RAISE, back |-> NO_IPC_MESSAGE]
    /\ EngineInit

\* message.to_json()
CodecToJson ==
    /\ codec.pc = "message"
    /\ codec' = [codec EXCEPT !.text = ToJson(codec.message),
                              !.pc = IF ToJson(codec.message) = JSON_RAISE
                                     THEN "raised" ELSE "text"]
    /\ UNCHANGED << engine, config, frame, now, calls, completed, env, sched, ipc, service >>

\* IPCMessage.from_json(text)
CodecFromJson ==
    /\ codec.pc = "text"
    /\ codec' = [codec EXCEPT !.back = MessageFromJson(codec.text, CODEC_NOW),
                              !.pc = "back"]
    /\ UNCHANGED << engine, config, frame, now, calls, completed, env, sched, ipc, service >>

CodecNext ==
    \/ CodecToJson
    \/ CodecFromJson

CodecSpec ==
    CodecInit /\ [][CodecNext]_vars

\* ------------------------------------------------------------------------
\* ConfigManager and the settings commands of WingetUpdaterService
\* ------------------------------------------------------------------------

\* the options of the 'Settings' section (config_manager.py, lines 29-37)
SETTING_KEYS ==
    {"morning_check", "afternoon_check", "notify_on_updates", "last_check",
     "auto_check", "include_pinned_updates", "include_unknown_versions"}

\* the options that configparser holds as text in service.settings; last_check and
\* the two include options are the fields of config
TEXT_KEYS ==
    {"morning_check", "afternoon_check", "notify_on_updates", "auto_check"}

\* a Python value of a request or a response: its type and its text str(value)
PyValue(t, s) ==
    [t |-> t, s |-> s]

PY_TRUE ==
    PyValue("bool", <<"T", "r", "u", "e">>)

PY_FALSE ==
    PyValue("bool", <<"F", "a", "l", "s", "e">>)

PY_NONE ==
    PyValue("NoneType", <<"N", "o", "n", "e">>)

TIME_0800 ==
    <<"0", "8", ":", "0", "0">>

TIME_1600 ==
    <<"1", "6", ":", "0", "0">>

TIME_0930 ==
    <<"0", "9", ":", "3", "0">>

\* ConfigManager.__init__, lines 29-37: the default values
DEFAULT_SETTINGS ==
    [morning_check |-> TIME_0800, afternoon_check |-> TIME_1600,
     notify_on_updates |-> PY_TRUE.s, auto_check |-> PY_TRUE.s]

\* configparser.ConfigParser.BOOLEAN_STATES, the table of getboolean
BOOLEAN_STATES_TRUE ==
    {<<"1">>, <<"y", "e", "s">>, <<"t", "r", "u", "e">>, <<"o", "n">>}

BOOLEAN_STATES_FALSE ==
    {<<"0">>, <<"n", "o">>, <<"f", "a", "l", "s", "e">>, <<"o", "f", "f">>}

\* what a getter or a handler gives when it raises
PY_RAISE ==
    PyValue("raise", << >>)

\* SectionProxy.getboolean of a stored text: the flag, or ValueError
GetBoolean(text) ==
    CASE Lower(text) \in BOOLEAN_STATES_TRUE -> PY_TRUE
      [] Lower(text) \in BOOLEAN_STATES_FALSE -> PY_FALSE
      [] OTHER -> PY_RAISE

\* the setters of ConfigManager (lines 64-72, 78-81 and 101-104): the text that
\* option key holds after set(value); the times are stored as they are given, and
\* configparser raises TypeError for a value that is no str; the flags are stored
\* as str(value)
SetRaises(key, value) ==
    /\ key \in {"morning_check", "afternoon_check"}
    /\ value.t # "str"

Stored(key, value) ==
    value.s

\* the getters of ConfigManager (lines 56-62, 74-76 and 97-99)
Get(settings, key) ==
    IF key \in {"morning_check", "afternoon_check"}
    THEN PyValue("str", settings[key])
    ELSE GetBoolean(settings[key])

\* the order of the tests of _handle_save_settings (lines 224-234)
SAVE_ORDER ==
    << "morning_check", "afternoon_check", "notify_on_updates", "auto_check" >>

\* _handle_save_settings, lines 224-234, from the i-th test on: the settings after
\* the setters have run, with raised set when a setter has raised
RECURSIVE SaveFrom(_, _, _)
SaveFrom(settings, data, i) ==
    IF i > Len(SAVE_ORDER) THEN [settings |-> settings, raised |-> FALSE]
    ELSE LET key == SAVE_ORDER[i]
         IN  IF key \notin DOMAIN data THEN SaveFrom(settings, data, i + 1)
             ELSE IF SetRaises(key, data[key])
                  THEN [settings |-> settings, raised |-> TRUE]
                  ELSE SaveFrom([settings EXCEPT ![key] = Stored(key, data[key])],
                                data, i + 1)

\* _handle_get_settings, lines 248-256: the keys of the mapping it returns
GET_SETTINGS_KEYS ==
    {"morning_check", "afternoon_check", "notify_on_updates", "auto_check",
     "last_check"}

\* ConfigManager.get_last_check().isoformat(), or None: the time as a value
LastCheckValue(time) ==
    IF time = NONE_TIME THEN PY_NONE ELSE PyValue("isoformat", << time >>)

\* _handle_get_settings: the mapping it returns from the settings
SettingsSnapshot(settings, last_check) ==
    [key \in GET_SETTINGS_KEYS |->
        IF key = "last_check" THEN LastCheckValue(last_check) ELSE Get(settings, key)]

\* a getter raises in _handle_get_settings
SnapshotRaises(settings) ==
    \E key \in TEXT_KEYS : Get(settings, key) = PY_RAISE

\* the values a client may give for a time and for a flag
TIME_VALUES ==
    {PyValue("str", TIME_0930), PyValue("int", <<"9", "3", "0">>)}

FLAG_VALUES ==
    {PY_TRUE, PY_FALSE, PyValue("str", <<"y", "e", "s">>), PY_NONE}

\* the values of a request for option key
ValuesOf(key) ==
    CASE key \in {"morning_check", "afternoon_check"} -> TIME_VALUES
      [] key = "auto_check" -> FLAG_VALUES
      [] OTHER -> {PY_TRUE, PY_FALSE}

\* the partial settings mappings over the given options
Mappings(keys) ==
    UNION {{d \in [K -> UNION {ValuesOf(k) : k \in K}] :
                \A k \in K : d[k] \in ValuesOf(k)} : K \in SUBSET keys}

\* the mappings a client sends: any part of the options that the settings window
\* sends (ui_component.py, lines 393-398) and of the include-pinned flag
SETTINGS_REQUESTS ==
    Mappings(TEXT_KEYS \cup {"include_pinned_updates"})

\* the mappings that set the auto-check flag to a boolean
AUTO_CHECK_REQUESTS ==
    {[k \in {"auto_check"} |-> v] : v \in {PY_TRUE, PY_FALSE}}

\* the requests that the clients of a deployment send
RequestsOf(clients) ==
    IF clients = "settings_window" THEN SETTINGS_REQUESTS ELSE AUTO_CHECK_REQUESTS

\* no command has been answered
NO_RESPONSE ==
    [command |-> "none", request |-> << >>, success |-> FALSE, data |-> << >>]

\* WingetUpdaterService.__init__ (lines 38-47) with a ConfigManager of the default
\* settings, serving the given clients
ServiceOn(clients) ==
    [pc |-> "on", clients |-> clients, settings |-> DEFAULT_SETTINGS,
     check_count |-> NO_COUNT, last |-> NO_RESPONSE, served |-> 0]

\* the number of settings commands that are served
MaxSettingsCalls ==
    2

\* the flag that the scheduler loop gets from get_auto_check (service_component.py,
\* line 139) when the ConfigManager holds the given settings: the loop and the
\* handlers share one ConfigManager, and the loop reads the flag in every iteration
ReadAutoCheckOnceAtStart(settings) ==
    GetBoolean(DEFAULT_SETTINGS.auto_check) = PY_TRUE

ReadAutoCheck(settings) ==
    GetBoolean(settings.auto_check) = PY_TRUE

\* _handle_save_settings, lines 221-246, for the request data; with a scheduler
\* loop running, the flag that its next get_auto_check reads
SaveSettings ==
    /\ service.pc = "on"
    /\ service.served < MaxSettingsCalls
    /\ frame["handler"].pc = "idle"
    /\ \E data \in RequestsOf(service.clients) :
          LET saved == SaveFrom(service.settings, data, 1)
          IN  /\ service' = [service EXCEPT
                                !.settings = saved.settings,
                                !.served = @ + 1,
                                !.check_count = NO_COUNT,
                                !.last = [command |-> "save_settings", request |-> data,
                                          success |-> ~saved.raised, data |-> << >>]]
              /\ sched' = IF sched.pc = "off" THEN sched
                          ELSE [sched EXCEPT !.auto_check =
                                   ReadAutoCheck(saved.settings)]
    /\ UNCHANGED << engine, config, frame, now, calls, completed, env, ipc, codec >>

\* _handle_get_settings, lines 248-256; an exception of a getter leaves the handler
\* and IPCServer._handle_command answers with an error envelope
GetSettings ==
    /\ service.pc = "on"
    /\ service.served < MaxSettingsCalls
    /\ frame["handler"].pc = "idle"
    /\ service' = [service EXCEPT
                      !.served = @ + 1,
                      !.check_count = NO_COUNT,
                      !.last = IF SnapshotRaises(service.settings)
                               THEN [command |-> "get_settings", request |-> << >>,
                                     success |-> FALSE, data |-> << >>]
                               ELSE [command |-> "get_settings", request |-> << >>,
                                     success |-> TRUE,
                                     data |-> SettingsSnapshot(service.settings,
                                                               config.last_check)]]
    /\ UNCHANGED << engine, config, frame, now, calls, completed, env, sched, ipc, codec >>

\* the service with its handler thread, the default settings and a package manager
\* of a few outputs
MaxServiceCalls ==
    2

ServiceInit ==
    /\ env = [threads |-> {"handler"}, max_calls |-> MaxServiceCalls, snapshots |-> FALSE,
              max_clock |-> 0,
              settings |-> {FALSE},
              json |-> {"invalid", "data"}, text |-> {"none", "short"}, pins |-> {"git"}]
    /\ sched = SCHED_OFF
    /\ ipc = IPC_OFF
    /\ codec = CODEC_OFF
    /\ service = ServiceOn("settings_window")
    /\ EngineInit

\* the commands of the engine that the handler thread serves one after the other
ServiceNext ==
    \E t \in THREADS : Step(t)

ServiceSpec ==
    ServiceInit /\ [][ServiceNext]_vars

\* the settings commands that the handler thread serves one after the other
SettingsNext ==
    \/ SaveSettings
    \/ GetSettings

SettingsSpec ==
    ServiceInit /\ [][SettingsNext]_vars

\* ------------------------------------------------------------------------
\* A command of the package manager that never exits
\* ------------------------------------------------------------------------

\* where a thread is about to run a command: 'winget pin list' (lines 522-527), a
\* structured command (lines 190-195), the text command (lines 134-139) and
\* 'winget upgrade --all' (lines 664-669)
COMMAND_PCS ==
    {"pin_run", "json_run", "text_run", "upgrade_run"}

\* subprocess.run(command, capture_output=True, text=True, check=False) is called
\* without a timeout: when the child never exits, the call never returns
CommandHangs(t) ==
    /\ frame[t].pc \in COMMAND_PCS
    /\ frame' = [frame EXCEPT ![t].pc = "blocked"]
    /\ UNCHANGED << engine, config, now, calls, completed, env, sched, ipc, codec, service >>

\* one thread that checks, reads and installs, and a package manager whose
\* commands may never exit
HangNext ==
    \E t \in THREADS : Step(t) \/ InstallStep(t) \/ CommandHangs(t)

HangSpec ==
    InstallInit /\ [][HangNext]_vars

\* the thread is scheduled
HangFairness ==
    \A t \in THREADS : WF_vars(Step(t) \/ InstallStep(t))

FairHangSpec ==
    HangSpec /\ HangFairness

\* ------------------------------------------------------------------------
\* The scheduler loop while the settings are saved
\* ------------------------------------------------------------------------

\* the service with its scheduler loop started and a client that saves the
\* auto-check flag; the history of the loop is kept
AutoInit ==
    /\ env = [threads |-> {}, max_calls |-> 0, snapshots |-> TRUE,
              max_clock |-> MaxLoopClock,
              settings |-> {FALSE},
              json |-> {"data"}, text |-> {"short"}, pins |-> {"git"}]
    /\ service = ServiceOn("auto_check_switch")
    /\ \E m \in {0, 1} :
          sched = [SCHED_OFF EXCEPT !.pc = "sleep",
                                    !.auto_check = ReadAutoCheck(service.settings),
                                    !.morning_check = m, !.afternoon_check = 1]
    /\ ipc = IPC_OFF
    /\ codec = CODEC_OFF
    /\ EngineInit

AutoNext ==
    \/ Run("scheduler")
    \/ SchedStep
    \/ SaveSettings

AutoSpec ==
    AutoInit /\ [][AutoNext]_vars

\* ------------------------------------------------------------------------
\* Properties of the engine under concurrent callers
\* ------------------------------------------------------------------------

\* the positions of a thread inside a check run: after the guard of line 92 let it
\* pass and line 106 set is_checking, up to the finally clause
RUN_PCS ==
    {"clear", "pin_reset", "pin_run", "json_run", "json_item", "json_count",
     "json_done", "text_run", "text_line", "text_count", "text_done", "finally"}

InRun(t) ==
    frame[t].pc \in RUN_PCS

\* check_updates has just returned to the operation that called it
CheckReturned(t) ==
    /\ frame[t].op # "none"
    /\ frame[t].exit # "none"
    /\ frame[t].pc = AfterCheck(frame[t])

\* C1: at any moment at most one check run is in progress, under every
\* interleaving of the scheduler's check_updates and the handlers' check_updates,
\* get_update_count and get_updates_list
C1_AtMostOneRun ==
    Cardinality({t \in THREADS : InRun(t)}) <= 1

\* C2: a check_updates(force=False) that finds a check in flight returns, at the
\* step of line 92-94 that skips the run, the count that the last completed check
\* produced
C2_SkippedCallReturnsCompletedCount ==
    [][\A t \in THREADS :
          (frame[t].exit # "skipped" /\ frame'[t].exit = "skipped")
              => frame'[t].ret = completed.count]_vars

\* C3: what a reader returns (the list from get_updates_list, the count from
\* get_update_count) is, at the moment it reads it, the complete result of the
\* last check that completed: never a cleared or partly filled list
C3_ReaderSeesCompleteResult ==
    [][\A t \in THREADS :
          /\ (frame[t].pc = "list_return" /\ frame'[t].pc = "done")
                => frame'[t].returned = completed.updates
          /\ (frame[t].pc = "count_return" /\ frame'[t].pc = "done")
                => frame'[t].ret = completed.count]_vars

\* C4: the step by which a check run returns (the finally clause of lines 162-163)
\* leaves is_checking false, whichever way the run ended: structured success, text
\* success, non-zero exit of the text command, or an exception
C4_GuardClearedOnEveryExit ==
    [][\A t \in THREADS :
          (frame[t].pc = "finally" /\ frame'[t].pc # "finally") => ~is_checking']_vars

\* a run has returned through its exception handler and the guard is clear
C4_ExceptionExitReached ==
    \E t \in THREADS :
        /\ CheckReturned(t)
        /\ frame[t].exit = "exception"
        /\ ~is_checking

\* C5: no exception leaves check_updates, and a run that ends failed (the text
\* command exits non-zero, or an error is caught by line 159) returns 0
C5_NoExceptionReachesCaller ==
    \A t \in THREADS :
        /\ ~frame[t].raised
        /\ (CheckReturned(t) /\ frame[t].exit \in {"nonzero", "exception"})
              => frame[t].ret = 0

\* a run whose structured output did not parse and whose text command could not be
\* spawned has returned 0 to its caller
C5_FailedRunReturned ==
    \E t \in THREADS :
        /\ CheckReturned(t)
        /\ frame[t].json_doc = "invalid"
        /\ frame[t].exit = "exception"
        /\ frame[t].ret = 0
        /\ ~frame[t].raised

\* ------------------------------------------------------------------------
\* Properties of one check run
\* ------------------------------------------------------------------------

\* C6: when the text command exits non-zero, check_updates returns 0 and the list
\* and the count are those held before the call
C6_NonZeroExitKeepsResult ==
    \A t \in THREADS :
        (CheckReturned(t) /\ frame[t].exit = "nonzero")
            => /\ frame[t].ret = 0
               /\ available_updates = frame[t].before.updates
               /\ update_count = frame[t].before.count

\* C7: the text command is run only after every structured command variant has
\* been tried: a variant that exits zero with output that does not parse is
\* followed by the next variant
C7_TextPathAfterAllVariants ==
    \A t \in THREADS :
        frame[t].pc = "text_run" => frame[t].variant = NumJsonCommands

\* a JSON object with neither the Sources nor the Data key
HasNoKnownKey(doc) ==
    /\ doc.kind = "object"
    /\ doc.keys \cap {"Sources", "Data"} = {}

\* C8: a structured document that is a JSON object with neither a Sources nor a
\* Data key is a parse failure: no run counts its updates or ends in success from it
C8_UnknownShapeIsParseFailure ==
    \A t \in THREADS :
        (frame[t].json_doc # "none" /\ HasNoKnownKey(JSON_DOCS[frame[t].json_doc]))
            => /\ frame[t].pc \notin {"json_count", "json_done"}
               /\ frame[t].exit # "json_ok"

\* the name, id and versions of a record
RecordFields(r) ==
    [name |-> r.name, id |-> r.id, current_version |-> r.current_version,
     available_version |-> r.available_version]

\* the (id, info) pairs of the Packages of every source of a document, in order
RECURSIVE SourcePackages(_)
SourcePackages(sources) ==
    IF sources = << >> THEN << >>
    ELSE Head(sources).Packages \o SourcePackages(Tail(sources))

\* the entries of a Sources document that the Sources branch (lines 249-273) is
\* written to keep: known version, comparable, not pinned, versions different
KeptPackage(p, pinned) ==
    /\ ~EqLiteral(p.info.Version, UNKNOWN_JSON)
    /\ IsValidVersionComparison(p.info.Version, p.info.AvailableVersion) = "true"
    /\ ~IsPackagePinned(p.id, pinned)
    /\ p.info.Version # p.info.AvailableVersion

RECURSIVE SourcesRecords(_, _)
SourcesRecords(packages, pinned) ==
    IF packages = << >> THEN << >>
    ELSE LET p == Head(packages)
             rest == SourcesRecords(Tail(packages), pinned)
         IN  IF KeptPackage(p, pinned)
             THEN << [name |-> p.info.Name.s, id |-> p.id,
                      current_version |-> p.info.Version.s,
                      available_version |-> p.info.AvailableVersion.s] >> \o rest
             ELSE rest

\* C9: a run whose structured command printed the Sources document ends with one
\* record for each of its N entries that is known, comparable, unpinned and of
\* different versions, with name, id and versions taken from the entry
C9_SourcesDocumentYieldsRecords ==
    \A t \in THREADS :
        (CheckReturned(t) /\ frame[t].json_doc = "sources")
            => /\ [i \in 1..Len(available_updates) |-> RecordFields(available_updates[i])]
                    = SourcesRecords(SourcePackages(JSON_DOCS.sources.Sources),
                                     pinned_packages)
               /\ frame[t].ret = Len(available_updates)

\* the comparability predicate on one version string: not empty, not "unknown" in
\* any case, with a decimal digit
ComparableVersion(v) ==
    /\ v # << >>
    /\ Lower(v) # UNKNOWN_LOWER
    /\ \E i \in 1..Len(v) : v[i] \in DIGITS

C11_RecordIdsUnique ==
    \A i, j \in 1..Len(available_updates) :
        i # j => available_updates[i].id # available_updates[j].id

\* no thread is inside check_updates: each is idle or holds the value an operation
\* is about to return
NoCheckInProgress ==
    \A t \in THREADS : frame[t].pc \in {"idle", "done", "list_return", "count_return"}

\* C12: whenever no check is in progress, update_count is the length of
\* available_updates: after a successful check, after a failed one, and after a
\* structured parse that failed part-way and a text command that failed
C12_CountIsLengthOfList ==
    NoCheckInProgress => update_count = Len(available_updates)

\* ------------------------------------------------------------------------
\* The filters
\* ------------------------------------------------------------------------

\* the records the loop of _process_output_section appends for the lines from i
\* on, under given flags and pins
RECURSIVE TextRecords(_, _, _, _, _)
TextRecords(fields, i, include_pinned, include_unknown, pinned) ==
    IF i > Len(fields) THEN << >>
    ELSE LET step == ProcessFields(fields[i], include_pinned, include_unknown, pinned)
             rest == TextRecords(fields, i + 1, include_pinned, include_unknown, pinned)
         IN  IF step.kind = "append" THEN << step.info >> \o rest ELSE rest

\* the records the loop over data["Data"] appends for the items from i on, up to
\* the item on which it raises
RECURSIVE JsonRecords(_, _, _, _, _)
JsonRecords(items, i, include_pinned, include_unknown, pinned) ==
    IF i > Len(items) THEN << >>
    ELSE LET step == JsonDataItem(items[i], include_pinned, include_unknown, pinned)
         IN  IF step.kind = "raise" THEN << >>
             ELSE LET rest == JsonRecords(items, i + 1, include_pinned,
                                          include_unknown, pinned)
                  IN  IF step.kind = "append" THEN << step.info >> \o rest ELSE rest

\* what a parse of the output a thread holds would have built under given flags
ResultUnder(t, include_pinned, include_unknown) ==
    IF frame[t].pc = "json_count"
    THEN JsonRecords(JSON_DOCS[frame[t].out].Data, 1, include_pinned, include_unknown,
                     pinned_packages)
    ELSE TextRecords(TEXT_FIELDS[frame[t].out], 1, include_pinned, include_unknown,
                     pinned_packages)

\* a thread has run a parser over a whole output and is about to set the count
ParseFinished(t) ==
    frame[t].pc \in {"json_count", "text_count"}

NotPinned(r) ==
    r.id \notin pinned_packages

\* C13: with the same output and the same pins, the result of a check with
\* include_pinned false is the result with include_pinned true less the records
\* whose id is pinned, in the same order
C13_PinnedFilterOnlyRemovesPinned ==
    \A t \in THREADS :
        (ParseFinished(t) /\ ~frame[t].include_pinned)
            => available_updates
                  = SelectSeq(ResultUnder(t, TRUE, frame[t].include_unknown), NotPinned)

\* a parse with include_pinned false has dropped a pinned record that the parse
\* with include_pinned true keeps, and kept another
C13_PinnedRecordDropped ==
    \E t \in THREADS :
        /\ ParseFinished(t)
        /\ ~frame[t].include_pinned
        /\ available_updates # << >>
        /\ Len(ResultUnder(t, TRUE, frame[t].include_unknown)) > Len(available_updates)

\* a version that is empty or "unknown" in any case
UnknownVersion(v) ==
    v = << >> \/ Lower(v) = UNKNOWN_LOWER

C15_PinFailureDoesNotAbortCheck ==
    \A t \in THREADS :
        frame[t].pin_failed
            => /\ pinned_packages = {}
               /\ ~frame[t].raised
               /\ ~InRun(t)
                     => frame[t].exit \in {"json_ok", "text_ok", "nonzero", "exception"}
               /\ ParseFinished(t)
                     => available_updates
                           = ResultUnder(t, TRUE, frame[t].include_unknown)

\* a check whose pin list command failed has ended in success with updates
C15_CheckSucceededAfterPinFailure ==
    \E t \in THREADS :
        /\ frame[t].pin_failed
        /\ CheckReturned(t)
        /\ frame[t].exit \in {"json_ok", "text_ok"}
        /\ frame[t].ret > 0

\* the positions of a thread between the refresh of the pins of its cycle and the
\* end of the filtering of that cycle
FILTER_PCS ==
    {"json_run", "json_item", "text_run", "text_line"}

\* C16: between the refresh of the pins by a check cycle and the end of the
\* filtering of that cycle no step changes pinned_packages, whatever the other
\* thread does
C16_PinsFixedDuringCycle ==
    [][\A t \in THREADS :
          frame[t].pc \in FILTER_PCS => pinned_packages' = pinned_packages]_vars

\* ------------------------------------------------------------------------
\* The readers
\* ------------------------------------------------------------------------

\* engine is left as it is
EngineUnchanged ==
    engine' = engine

\* C17: get_updates_list starts a check only when available_updates is empty and
\* get_update_count only when update_count is 0; with a cache that is not empty
\* they spawn nothing, change nothing in the engine and return the cached value
C17_ReadersCheckOnlyOnEmptyCache ==
    [][\A t \in THREADS :
          /\ (frame[t].pc = "idle" /\ frame'[t].op = "get_updates_list")
                => IF available_updates # << >>
                   THEN /\ frame'[t].pc = "list_return"
                        /\ ~frame'[t].spawned
                        /\ EngineUnchanged
                   ELSE frame'[t].pc = "set_guard"
          /\ (frame[t].pc = "idle" /\ frame'[t].op = "get_update_count")
                => IF update_count # 0
                   THEN /\ frame'[t].pc = "count_return"
                        /\ ~frame'[t].spawned
                        /\ EngineUnchanged
                   ELSE frame'[t].pc = "set_guard"
          /\ (frame[t].pc = "list_return" /\ frame[t].exit = "none")
                => /\ frame'[t].returned = available_updates
                   /\ EngineUnchanged
          /\ (frame[t].pc = "count_return" /\ frame[t].exit = "none")
                => /\ frame'[t].ret = update_count
                   /\ EngineUnchanged]_vars

\* get_updates_list has found a list that is not empty and is about to return it
C17_CachedListServed ==
    \E t \in THREADS :
        /\ frame[t].pc = "list_return"
        /\ frame[t].exit = "none"
        /\ available_updates # << >>

\* ------------------------------------------------------------------------
\* install_all_updates
\* ------------------------------------------------------------------------

\* install_all_updates has returned to the caller of thread t
InstallReturned(t) ==
    /\ frame[t].op = "install_all_updates"
    /\ frame[t].pc = "done"

\* C18: install_all_updates returns True only if 'winget upgrade --all' exited
\* with status zero and no id of the updates it set out to install is in the list
\* of the check that follows; it returns False whenever such an id is in that list
C18_TrueOnlyAfterVerifiedUpgrade ==
    \A t \in THREADS :
        InstallReturned(t)
            => /\ frame[t].result = "true"
                    => /\ frame[t].upgrade = "zero"
                       /\ ~StillPending(frame[t].updates_to_install, available_updates)
               /\ (/\ frame[t].upgrade = "zero"
                   /\ StillPending(frame[t].updates_to_install, available_updates))
                    => frame[t].result = "false"

\* ------------------------------------------------------------------------
\* The scheduler loop
\* ------------------------------------------------------------------------

\* the step in which the loop finds the minute of a setting and calls _check_updates
SchedulerTriggers ==
    /\ sched.pc = "sleep"
    /\ sched'.pc = "check"

\* C19: for each time of the settings the loop starts a check at most once in a
\* minute that matches, whatever the time the check takes
C19_OneTriggerPerMatchingMinute ==
    [][(SchedulerTriggers /\ ~is_checking)
          => CurrentTime(sched.clock) \notin sched.fired]_vars

\* C20: when is_checking is set at the time match of the loop, the call starts no
\* run and raises nothing, the engine and the thread of the check in progress are
\* left as they are, and the loop goes to sleep for its interval without a second call
C20_MissedTickStartsNoRun ==
    [][/\ (SchedulerTriggers /\ is_checking)
            => /\ EngineUnchanged
               /\ frame'["handler"] = frame["handler"]
               /\ frame'["scheduler"].pc = "done"
               /\ frame'["scheduler"].exit = "skipped"
               /\ ~frame'["scheduler"].raised
       /\ (sched.missed /\ sched' # sched /\ sched'.clock = sched.clock)
            => /\ sched'.pc = "sleep"
               /\ sched'.wake = sched.clock + SLEEP_TICKS
               /\ frame'["scheduler"].pc = "idle"
       /\ (sched.missed /\ frame'["scheduler"] # frame["scheduler"])
            => /\ frame'["scheduler"] = IDLE_FRAME
               /\ EngineUnchanged]_vars

\* the loop has called check_updates while the handler's check was in progress
C20_TickMissed ==
    /\ sched.missed
    /\ is_checking
    /\ InRun("handler")
    /\ frame["scheduler"].exit = "skipped"

\* an iteration of the loop ends in its except clause in this step
LoopRaises ==
    sched'.errors = sched.errors + 1

\* C21: an exception of an iteration is caught, the loop sleeps 60 seconds and not
\* 30, it never ends, and it goes on to its next iteration whenever the time of
\* that iteration comes
C21_LoopSurvivesExceptions ==
    /\ [][LoopRaises => /\ sched'.pc = "sleep"
                        /\ sched'.wake = sched.clock + ERROR_SLEEP_TICKS]_vars
    /\ [](sched.pc \in {"sleep", "check"})
    /\ \A n \in 0..MaxLoopClock :
          (sched.polls = n /\ sched.pc = "sleep" /\ sched.wake <= env.max_clock)
              ~> (sched.polls > n)

\* after an iteration that raised, a later time of the settings has called a check
C21_CheckTriggeredAfterException ==
    /\ sched.errors > 0
    /\ sched.pc = "check"
    /\ InRun("scheduler")

\* ------------------------------------------------------------------------
\* The pipe
\* ------------------------------------------------------------------------

\* the server takes a request from the pipe in this step
ServerServes ==
    /\ ipc.server = "read"
    /\ ipc.c2s # << >>
    /\ Len(ipc'.c2s) < Len(ipc.c2s)

\* the envelopes the server writes in this step
Written ==
    SubSeq(ipc'.s2c, Len(ipc.s2c) + 1, Len(ipc'.s2c))

\* C22: for every request the server reads it writes exactly one envelope, a
\* response or an error, that answers this request, whether the request is an
\* envelope or malformed and whether its handler returns or raises
C22_OneEnvelopePerRequest ==
    [][ServerServes
          => /\ Len(Written) = 1
             /\ Written[1].req = Head(ipc.c2s).req
             /\ Written[1].command \in {"response", "error"}]_vars

\* C23: a request for a command without a handler, and a request whose handler
\* raises, are answered with one envelope of command "error" that carries a
\* message; the server loop goes on and the connection stays open for the next
\* request
C23_ErrorEnvelopeKeepsConnection ==
    [][(ServerServes /\ Head(ipc.c2s).kind = "envelope")
          => /\ Len(Written) = 1
             /\ Head(ipc.c2s).command \notin COMMAND_HANDLERS
                    => /\ Written[1].command = "error"
                       /\ Written[1].message = "unknown_command"
             /\ Written[1].command = "error" => Written[1].message # "none"
             /\ Written[1].command \in {"error", "response"}
             /\ ipc'.server = "read"
             /\ ipc'.link = "open"
             /\ ipc'.conn = ipc.conn]_vars

\* on one connection the server has answered a request with an error envelope and
\* a later request with a response
C23_ServedAfterError ==
    \E i, j \in 1..Len(ipc.s2c) :
        /\ i < j
        /\ ipc.s2c[i].command = "error"
        /\ ipc.s2c[i].message = "exception"
        /\ ipc.s2c[j].command = "response"

\* C24: the accept loop ends only after stop(); while the server is running, the
\* end of a session (the client has disconnected, a transport error) leads back to
\* a server that waits for the next client
C24_ServerReturnsToAccept ==
    /\ [](ipc.server = "stopped" => ~ipc.running)
    /\ (ipc.server = "close" /\ ipc.running /\ ipc.conn < MaxConns)
           ~> (ipc.server = "accept" \/ ~ipc.running)

\* a client that has connected after an earlier session ended has been served
C24_LaterClientServed ==
    /\ ipc.conn > 1
    /\ ipc.running
    /\ \E t \in CLIENT_THREADS :
          /\ ipc.threads[t].ret = "response"
          /\ ipc.client_pipe = ipc.conn

\* send_command of thread t returns None in this step, from its write or its read
SendFails(t) ==
    /\ ipc.threads[t].op = "send_command"
    /\ ipc.threads[t].pc \in {"write", "read"}
    /\ ipc'.threads[t].pc = "done"
    /\ ipc'.threads[t].ret = "null"

\* C25: when send_command returns None for a failing write, a failing read or a
\* response that is no envelope, the client holds no pipe any more, so that the
\* next call connects first
C25_FailedSendClearsConnection ==
    [][\A t \in CLIENT_THREADS : SendFails(t) => ipc'.client_pipe = 0]_vars

\* connect of thread t gives up in this step
ConnectGivesUp(t) ==
    /\ ipc.threads[t].pc = "connect"
    /\ ipc'.threads[t].pc = "done"
    /\ ipc'.threads[t].ret \in {"false", "null"}

\* C26: connect gives up only when its attempts have used up the timeout, whatever
\* made the attempts fail
C26_ConnectRetriesUntilTimeout ==
    [][\A t \in CLIENT_THREADS :
          ConnectGivesUp(t) => ipc'.threads[t].attempts >= TimeoutAttempts]_vars

\* C27: calls of send_command on the one client do not interleave: the response a
\* call returns is the answer to the request this call wrote, and at most one
\* call is between its write and its read
C27_CallGetsItsOwnResponse ==
    /\ \A t \in CLIENT_THREADS :
          ipc.threads[t].ret = "response" => ipc.threads[t].resp.req = ipc.threads[t].req
    /\ Cardinality({t \in CLIENT_THREADS : ipc.threads[t].pc = "read"}) <= 1

\* thread t reads from the pipe in this step
ClientReads(t) ==
    /\ ipc.threads[t].pc = "read"
    /\ ipc.s2c # << >>
    /\ ipc'.s2c # ipc.s2c
    /\ ipc'.threads[t].pc = "done"

\* C28: a read yields one complete envelope: it returns the whole of the message
\* that was written first, whatever its size, and leaves nothing of it in the pipe
C28_ReadYieldsWholeEnvelope ==
    [][\A t \in CLIENT_THREADS :
          ClientReads(t) => /\ ipc'.threads[t].resp = Head(ipc.s2c)
                            /\ ipc'.s2c = Tail(ipc.s2c)]_vars

\* ------------------------------------------------------------------------
\* The envelope
\* ------------------------------------------------------------------------

\* the message read back has the command, the data and the time stamp of the
\* message that was converted
RoundTrips ==
    codec.pc \in {"text", "raised", "back"}
        => /\ codec.pc # "raised"
           /\ codec.pc = "back" => codec.back = codec.message

C30_NamedCommandsHaveHandlers ==
    [][(/\ ServerServes
        /\ Head(ipc.c2s).kind = "envelope"
        /\ Head(ipc.c2s).command \in COMMAND_HANDLERS \cup CLIENT_COMMANDS)
          => \A i \in 1..Len(Written) : Written[i].message # "unknown_command"]_vars

\* ------------------------------------------------------------------------
\* The commands of the service
\* ------------------------------------------------------------------------

\* the service answers a get_status command of thread t: get_update_count has
\* returned
StatusAnswered(t) ==
    /\ service.pc = "on"
    /\ frame[t].pc = "done"
    /\ frame[t].op = "get_update_count"
    /\ frame'[t].pc = "idle"

\* C31: the update_count of the response to a check_updates command is the
\* update_count that a get_status command reports for the state of the engine that
\* the check has left, whether the check succeeded, found no update or failed
C31_StatusCountIsCheckResponseCount ==
    [][\A t \in THREADS :
          (StatusAnswered(t) /\ service.check_count # NO_COUNT)
              => frame[t].ret = service.check_count]_vars

\* what the getter of ConfigManager gives for option key, from the settings and
\* the fields of config
SettingValue(settings, fields, key) ==
    CASE key \in TEXT_KEYS -> Get(settings, key)
      [] key = "last_check" -> LastCheckValue(fields.last_check)
      [] key = "include_pinned_updates" ->
             IF fields.include_pinned_updates THEN PY_TRUE ELSE PY_FALSE
      [] key = "include_unknown_versions" ->
             IF fields.include_unknown_versions THEN PY_TRUE ELSE PY_FALSE

\* the service answers a save_settings command, a get_settings command
SaveAnswered ==
    /\ service.pc = "on"
    /\ service'.served = service.served + 1
    /\ service'.last.command = "save_settings"

GetAnswered ==
    /\ service.pc = "on"
    /\ service'.served = service.served + 1
    /\ service'.last.command = "get_settings"

\* C32: save_settings changes exactly the settings whose keys are in its input
\* mapping and leaves every other setting as it was; after a successful
\* save_settings, get_settings returns the saved value for each of these keys
C32_SaveChangesExactlyGivenKeys ==
    [][/\ SaveAnswered
          => LET data == service'.last.request
             IN  /\ \A key \in SETTING_KEYS \ DOMAIN data :
                       SettingValue(service'.settings, config', key)
                           = SettingValue(service.settings, config, key)
                 /\ service'.last.success
                       => \A key \in SETTING_KEYS \cap DOMAIN data :
                             SettingValue(service'.settings, config', key) = data[key]
       /\ (GetAnswered /\ service.last.command = "save_settings" /\ service.last.success)
          => /\ service'.last.success
             /\ \A key \in DOMAIN service.last.request :
                   /\ key \in DOMAIN service'.last.data
                   /\ service'.last.data[key] = service.last.request[key]]_vars

\* C33: get_settings returns a full snapshot: a value for every setting that the
\* ConfigManager holds (the two check times, the notify flag, the auto-check flag,
\* the include-pinned flag, the include-unknown flag and the last-check time)
C33_GetSettingsReturnsEverySetting ==
    [][(GetAnswered /\ service'.last.success)
          => /\ DOMAIN service'.last.data = SETTING_KEYS
             /\ \A key \in SETTING_KEYS :
                   service'.last.data[key] = SettingValue(service.settings, config, key)]_vars

\* ------------------------------------------------------------------------
\* Commands that never exit
\* ------------------------------------------------------------------------

\* C34: when a command of the package manager never exits the engine does not
\* hang: the invocation is given up, the operation returns (a check with 0), and
\* is_checking becomes false again so that later checks can run
C34_HungCommandIsGivenUp ==
    /\ \A t \in THREADS : (frame[t].pc # "idle") ~> (frame[t].pc = "done")
    /\ is_checking ~> ~is_checking

\* ------------------------------------------------------------------------
\* The time of the last check
\* ------------------------------------------------------------------------

\* a run of thread t completes successfully in this step
CompletesCheck(t) ==
    /\ frame[t].exit = "none"
    /\ frame'[t].exit \in {"json_ok", "text_ok"}

\* C35: last_check_time is absent until the first check completes; every check
\* that completes successfully sets it to the time of its completion and gives
\* the ConfigManager a new last-check time; no other step (of a check that fails, of
\* a call that the guard skips) changes it
C35_LastCheckTimeFollowsCompletedChecks ==
    /\ [](now = 0 => last_check_time = NONE_TIME /\ config.last_check = NONE_TIME)
    /\ [][\A t \in THREADS :
             CompletesCheck(t) => /\ last_check_time' # NONE_TIME
                                  /\ last_check_time' > last_check_time
                                  /\ last_check_time' = now'
                                  /\ config'.last_check > config.last_check
                                  /\ config'.last_check <= last_check_time']_vars
    /\ [][(\A t \in THREADS : ~CompletesCheck(t))
             => /\ last_check_time' = last_check_time
                /\ config'.last_check = config.last_check
                /\ now' = now]_vars

\* a check has completed, and later a call has been skipped by the guard and a
\* check has failed
C35_SkippedAndFailedAfterCompleted ==
    /\ last_check_time # NONE_TIME
    /\ \E t \in THREADS : frame[t].exit = "skipped"
    /\ \E t \in THREADS : frame[t].exit \in {"nonzero", "exception"}

\* ------------------------------------------------------------------------
\* The checks of install_all_updates
\* ------------------------------------------------------------------------

\* C36: every check that install_all_updates runs, the check before the upgrade
\* and the check that verifies it, is run with include_pinned and include_unknown
\* both True, so that both lists are made under the same filter
C36_InstallChecksIncludeEverything ==
    \A t \in THREADS :
        (frame[t].op = "install_all_updates" /\ frame[t].pc \notin {"idle", "blocked"})
            => /\ frame[t].include_pinned
               /\ frame[t].include_unknown

\* ------------------------------------------------------------------------
\* The guard while runs overlap
\* ------------------------------------------------------------------------

\* a run of thread t has set the guard and has not reached its exit
RunActive(t) ==
    frame[t].pc \in RUN_PCS \ {"finally"}

\* C37: is_checking is true in every state in which a check run has started and
\* has not returned, also when a forced check overlaps another run and one of the
\* two has finished
C37_GuardSetWhileAnyRunActive ==
    (\E t \in THREADS : RunActive(t)) => is_checking

\* C38: install_all_updates returns True only if the last check it has run, the
\* check before the upgrade or the check that verifies it, has completed
\* successfully: a check that failed and left the list empty is no ground for True
C38_TrueOnlyAfterSuccessfulChecks ==
    \A t \in THREADS :
        (InstallReturned(t) /\ frame[t].result = "true")
            => frame[t].exit \in {"json_ok", "text_ok"}

\* ------------------------------------------------------------------------
\* The auto-check flag
\* ------------------------------------------------------------------------

\* the auto-check flag of the settings that the ConfigManager holds
AutoCheckSetting ==
    GetBoolean(service.settings.auto_check) = PY_TRUE

\* an iteration of the loop that does not raise reads the settings in this step
LoopReadsSettings ==
    /\ sched.pc = "sleep"
    /\ sched.clock >= sched.wake
    /\ sched'.polls = sched.polls + 1
    /\ ~LoopRaises

\* C39: while the auto-check flag of the settings is false the loop starts no check
\* whatever the time; when the flag has been saved as true again, the loop that is
\* running calls the check at the next of its iterations that finds a time of the
\* settings, without a restart
C39_AutoCheckFlagSwitchesScheduler ==
    /\ [][~AutoCheckSetting
             => /\ ~SchedulerTriggers
                /\ frame["scheduler"].pc = "idle" => frame'["scheduler"].pc = "idle"]_vars
    /\ [][(/\ LoopReadsSettings
           /\ AutoCheckSetting
           /\ CurrentTime(sched.clock) \in {sched.morning_check, sched.afternoon_check})
             => /\ SchedulerTriggers
                /\ frame'["scheduler"].op = "check_updates"
                /\ frame'["scheduler"].pc # "idle"]_vars
    /\ [](sched.pc \in {"sleep", "check"})

\* the flag was false at the first time of the settings, has been saved as true,
\* and the loop has called a check at the next time of the settings
C39_FiredAfterSwitchedOnAgain ==
    /\ service.pc = "on"
    /\ service.served = MaxSettingsCalls
    /\ service.last.success
    /\ AutoCheckSetting
    /\ sched.errors = 0
    /\ sched.morning_check = 0
    /\ 0 \notin sched.fired
    /\ 1 \in sched.fired
    /\ InRun("scheduler")
====
